---- MODULE Spec2Model ----
(***************************************************************************)
(* Formula engine of the robot hand controller: tokenizer, recursive       *)
(* descent parser, evaluator with the geometry functions, and the public   *)
(* API (evaluate / validate / getErrorMessage) of FormulaParser; then      *)
(* ServoControl (formula registry, calculated positions, the connection to *)
(* the robot) and the detection loop of HandTracking.                      *)
(*                                                                         *)
(* Strings are sequences of one-character strings.  JavaScript numbers are *)
(* modelled as exact rationals [n, d] in lowest terms with d > 0, extended *)
(* by NaN = 0/0, +Infinity = 1/0 and -Infinity = -1/0.  Binary rounding of *)
(* doubles and the sign of zero are not modelled.                          *)
(***************************************************************************)
EXTENDS Integers, Sequences, FiniteSets, Bags, TLC

VARIABLES formula, servoId, landmarks, call, result, out,
          lastTokens, remembered,
          formulas, calculatedPositions, onCalculatedPositionsUpdateCallback,
          notified,
          index,
          robotIp, minChangeThreshold, lastSentPositions, isConnected,
          sendTimer, statusUpdateTimer, requests, received,
          isTracking, animationFrameId, frames, detections,
          onLandmarksUpdateCallback, delivered

\* The arguments of the last call, the call, and what it returned or threw.
callVars == <<formula, servoId, landmarks, call, result, out>>

\* What a caller of FormulaParser observes over a session.  lastTokens: the
\* token array built by its last call; remembered: one earlier call of the
\* public evaluate, kept by the caller.
sessionVars == <<lastTokens, remembered>>

\* ServoControl: the formula registry, the calculated positions, whether a
\* calculated-positions callback is registered (TRUE) or null (FALSE), and
\* whether the last call invoked it.
controlVars ==
    <<formulas, calculatedPositions, onCalculatedPositionsUpdateCallback, notified>>

\* The tokenizer while it runs: the index of its while loop.
tokenizerVars == <<index>>

\* ServoControl's connection to the robot: the private variables of the
\* module, the timers as set (TRUE) or null (FALSE), the bag of fetch
\* requests in flight, and, on the robot's side, the positions of the POSTs
\* it has answered successfully, as pairs of servo key and position.
networkVars ==
    <<robotIp, minChangeThreshold, lastSentPositions, isConnected,
      sendTimer, statusUpdateTimer, requests, received>>

\* HandTracking: the private variables of the module (the landmarks
\* callback as registered, TRUE, or null, FALSE), the animation frames
\* requested and not yet run or cancelled, the number of detectionLoop
\* calls awaiting detectLandmarks, and whether the last step passed
\* landmarks to the landmarks callback.
trackingVars ==
    <<isTracking, animationFrameId, frames, detections,
      onLandmarksUpdateCallback, delivered>>

\* What the formula engine and the formula registry never touch.
otherVars == <<tokenizerVars, networkVars, trackingVars>>

vars == <<callVars, sessionVars, controlVars, otherVars>>

(***************************************************************************)
(* Numbers                                                                 *)
(***************************************************************************)
Abs(i) == IF i < 0 THEN -i ELSE i

Sign(i) == IF i < 0 THEN -1 ELSE IF i = 0 THEN 0 ELSE 1

RECURSIVE Gcd(_, _)
Gcd(a, b) == IF b = 0 THEN a ELSE Gcd(b, a % b)

\* The number n/d; d = 0 gives NaN (n = 0) or a signed infinity.
Rat(n, d) ==
    IF d = 0 THEN [n |-> Sign(n), d |-> 0]
    ELSE LET g == Gcd(Abs(n), Abs(d))
             s == Sign(d)
         IN  [n |-> (s * n) \div g, d |-> (s * d) \div g]

Num(i) == [n |-> i, d |-> 1]

NaN == [n |-> 0, d |-> 0]

IsNaN(a) == a.d = 0 /\ a.n = 0

IsFinite(a) == a.d # 0

IsZero(a) == a.d # 0 /\ a.n = 0

IsInteger(a) == a.d = 1

Neg(a) == [n |-> -a.n, d |-> a.d]

Add(a, b) ==
    IF a.d = 0 /\ b.d = 0
    THEN (IF a.n = b.n THEN a ELSE NaN)
    ELSE Rat(a.n * b.d + b.n * a.d, a.d * b.d)

Sub(a, b) == Add(a, Neg(b))

Mul(a, b) == Rat(a.n * b.n, a.d * b.d)

\* JavaScript's / : x/0 is an infinity, 0/0 is NaN, nothing is thrown.
Div(a, b) == Rat(a.n * b.d, a.d * b.n)

\* a < b, a <= b, a > b, a >= b: false as soon as one side is NaN.
Lt(a, b) == ~IsNaN(a) /\ ~IsNaN(b) /\
    (IF a.d = 0 \/ b.d = 0
     THEN (IF a.d = 0 /\ b.d = 0 THEN a.n < b.n
           ELSE IF a.d = 0 THEN a.n < 0 ELSE b.n > 0)
     ELSE a.n * b.d < b.n * a.d)

Le(a, b) == ~IsNaN(a) /\ ~IsNaN(b) /\ ~Lt(b, a)

Gt(a, b) == Lt(b, a)

Ge(a, b) == Le(b, a)

\* a === b on numbers.
StrictEq(a, b) == ~IsNaN(a) /\ ~IsNaN(b) /\ a = b

MathMin(a, b) == IF IsNaN(a) \/ IsNaN(b) THEN NaN ELSE IF Lt(b, a) THEN b ELSE a

MathMax(a, b) == IF IsNaN(a) \/ IsNaN(b) THEN NaN ELSE IF Lt(a, b) THEN b ELSE a

\* floor of a finite rational
Floor(a) == IF a.n >= 0 THEN a.n \div a.d ELSE -((-a.n + a.d - 1) \div a.d)

\* Math.round: the nearest integer, halves towards +Infinity.
MathRound(a) == IF a.d = 0 THEN a ELSE Num(Floor(Add(a, Rat(1, 2))))

\* The largest r in lo .. hi - 1 with r * r <= m, given lo * lo <= m < hi * hi.
RECURSIVE ISqrtBetween(_, _, _)
ISqrtBetween(m, lo, hi) ==
    IF hi - lo <= 1 THEN lo
    ELSE LET mid == (lo + hi) \div 2
         IN  IF mid * mid <= m THEN ISqrtBetween(m, mid, hi)
             ELSE ISqrtBetween(m, lo, mid)

\* floor(sqrt(m)) of a natural number below 2^31
ISqrt(m) == ISqrtBetween(m, 0, IF m + 1 < 46341 THEN m + 1 ELSE 46341)

\* Resolution of the square root: results are multiples of 1/(d * SqrtScale).
SqrtScale == 10

\* Math.sqrt, rounded down to the resolution above (exact on squares).
MathSqrt(a) ==
    IF IsNaN(a) \/ (a.d # 0 /\ a.n < 0) THEN NaN
    ELSE IF a.d = 0 THEN a
    ELSE Rat(ISqrt(a.n * a.d * SqrtScale * SqrtScale), a.d * SqrtScale)

(***************************************************************************)
(* Characters and strings                                                  *)
(***************************************************************************)
Digits == {"0", "1", "2", "3", "4", "5", "6", "7", "8", "9"}

Letters ==
    {"a", "b", "c", "d", "e", "f", "g", "h", "i", "j", "k", "l", "m",
     "n", "o", "p", "q", "r", "s", "t", "u", "v", "w", "x", "y", "z",
     "A", "B", "C", "D", "E", "F", "G", "H", "I", "J", "K", "L", "M",
     "N", "O", "P", "Q", "R", "S", "T", "U", "V", "W", "X", "Y", "Z"}

\* The identifier characters with '$' among them.
IdentCharsWithDollar == Letters \cup Digits \cup {"_", "[", "]", "$"}

\* /[a-zA-Z0-9_\[\]]/
IdentChars == Letters \cup Digits \cup {"_", "[", "]"}

OperatorChars == {"+", "-", "*", "/", "(", ")"}

\* /\s/
Whitespace == {" ", "\t", "\n"}

DigitVal(c) ==
    CASE c = "0" -> 0 [] c = "1" -> 1 [] c = "2" -> 2 [] c = "3" -> 3
      [] c = "4" -> 4 [] c = "5" -> 5 [] c = "6" -> 6 [] c = "7" -> 7
      [] c = "8" -> 8 [] c = "9" -> 9

DigitChar(v) == CHOOSE c \in Digits : DigitVal(c) = v

RECURSIVE Pow10(_)
Pow10(k) == IF k = 0 THEN 1 ELSE 10 * Pow10(k - 1)

RECURSIVE DigitsVal(_)
DigitsVal(s) ==
    IF s = <<>> THEN 0
    ELSE 10 * DigitsVal(SubSeq(s, 1, Len(s) - 1)) + DigitVal(s[Len(s)])

\* The first index >= i of s whose character is outside cs (Len(s) + 1 if none).
RECURSIVE ScanWhile(_, _, _)
ScanWhile(s, i, cs) ==
    IF i <= Len(s) /\ s[i] \in cs THEN ScanWhile(s, i + 1, cs) ELSE i

\* String.prototype.trim
RECURSIVE TrimLeft(_)
TrimLeft(s) ==
    IF s # <<>> /\ Head(s) \in Whitespace THEN TrimLeft(Tail(s)) ELSE s

RECURSIVE TrimRight(_)
TrimRight(s) ==
    IF s # <<>> /\ s[Len(s)] \in Whitespace
    THEN TrimRight(SubSeq(s, 1, Len(s) - 1)) ELSE s

Trim(s) == TrimRight(TrimLeft(s))

\* parseFloat on a run of digits and dots that starts with a digit: the
\* longest prefix digits [ "." digits ] is read, the rest is ignored.
ParseFloat(num) ==
    LET e1 == ScanWhile(num, 1, Digits)
        ip == SubSeq(num, 1, e1 - 1)
        e2 == IF e1 <= Len(num) THEN ScanWhile(num, e1 + 1, Digits) ELSE e1
        fp == IF e1 <= Len(num) THEN SubSeq(num, e1 + 1, e2 - 1) ELSE <<>>
    IN  Rat(DigitsVal(ip) * Pow10(Len(fp)) + DigitsVal(fp), Pow10(Len(fp)))

RECURSIVE NatStr(_)
NatStr(i) ==
    IF i < 10 THEN <<DigitChar(i)>>
    ELSE NatStr(i \div 10) \o <<DigitChar(i % 10)>>

\* Number of fraction digits written for a number that is no finite decimal.
MaxFracDigits == 6

RECURSIVE FracStr(_, _, _)
FracStr(r, d, k) ==
    IF r = 0 \/ k = 0 THEN <<>>
    ELSE <<DigitChar((r * 10) \div d)>> \o FracStr((r * 10) % d, d, k - 1)

\* String(number), as a template literal writes it.
NumStr(a) ==
    IF IsNaN(a) THEN <<"N", "a", "N">>
    ELSE IF a.d = 0
    THEN (IF a.n < 0 THEN <<"-">> ELSE <<>>)
         \o <<"I", "n", "f", "i", "n", "i", "t", "y">>
    ELSE LET m == Abs(a.n)
             f == FracStr(m % a.d, a.d, MaxFracDigits)
         IN  (IF a.n < 0 THEN <<"-">> ELSE <<>>) \o NatStr(m \div a.d)
             \o (IF f = <<>> THEN <<>> ELSE <<".">> \o f)

(***************************************************************************)
(* Tokenizer                                                               *)
(***************************************************************************)
NumberToken(v) == [type |-> "number", value |-> v]

OperatorToken(c) == [type |-> "operator", value |-> c]

FunctionToken(name) == [type |-> "function", value |-> name]

\* An identifier pushed as a function whatever follows it.
IdentifierAsFunction(name) == [type |-> "function", value |-> name]

VariableToken(name) == [type |-> "variable", value |-> name]

CommaToken == [type |-> "comma", value |-> ","]

\* StripWhitespace removing only the first whitespace character.
StripFirstWhitespace(f) ==
    IF \A k \in 1..Len(f) : f[k] \notin Whitespace THEN f
    ELSE LET k == CHOOSE k \in 1..Len(f) :
                     f[k] \in Whitespace /\ \A j \in 1..(k - 1) : f[j] \notin Whitespace
         IN  SubSeq(f, 1, k - 1) \o SubSeq(f, k + 1, Len(f))

StripWhitespace(f) == SelectSeq(f, LAMBDA c : c \notin Whitespace)

\* What one pass through the body of the while loop of tokenize leaves:
\* the index and the tokens pushed.  f is the stripped formula, i the
\* (1-based) index of the character looked at, tokens what has been pushed.
Iteration(i, tokens) == [i |-> i, tokens |-> tokens]

tokenizeIteration(f, i, tokens) ==
    LET char == f[i] IN
      IF char \in Digits
      THEN LET e == ScanWhile(f, i, Digits \cup {"."})
           IN  Iteration(e, Append(tokens,
                                   NumberToken(ParseFloat(SubSeq(f, i, e - 1)))))
      ELSE IF char \in OperatorChars
      THEN Iteration(i + 1, Append(tokens, OperatorToken(char)))
      ELSE IF char \in Letters
      THEN LET e == ScanWhile(f, i, IdentChars)
               name == SubSeq(f, i, e - 1)
           IN  IF e <= Len(f) /\ f[e] = "("
               THEN Iteration(e, Append(tokens, FunctionToken(name)))
               ELSE Iteration(e, Append(tokens, VariableToken(name)))
      ELSE IF char = ","
      THEN Iteration(i + 1, Append(tokens, CommaToken))
      ELSE Iteration(i + 1, tokens)

\* The while loop of tokenize, from index i on.
RECURSIVE TokenizeFrom(_, _, _)
TokenizeFrom(f, i, tokens) ==
    IF i > Len(f) THEN tokens
    ELSE LET it == tokenizeIteration(f, i, tokens)
         IN  TokenizeFrom(f, it.i, it.tokens)

\* tokenize pushing onto the array of the call before instead of a new one.
tokenizeAppending(f) == TokenizeFrom(StripWhitespace(f), 1, lastTokens)

tokenize(f) == TokenizeFrom(StripWhitespace(f), 1, <<>>)

(***************************************************************************)
(* Parser.  A parse function returns [ok |-> TRUE, node, pos] (pos is the  *)
(* value of `position` on return) or, where the code throws,               *)
(* [ok |-> FALSE, msg].                                                    *)
(***************************************************************************)
Thrown(msg) == [ok |-> FALSE, msg |-> msg]

Parsed(node, pos) == [ok |-> TRUE, node |-> node, pos |-> pos]

NumberNode(v) == [type |-> "number", value |-> v]

BinaryNode(op, l, r) ==
    [type |-> "binary", operator |-> op, left |-> l, right |-> r]

UnaryNode(e) == [type |-> "unary", operator |-> "-", expression |-> e]

FunctionNode(name, args) ==
    [type |-> "function", name |-> name, arguments |-> args]

VariableNode(name) == [type |-> "variable", name |-> name]

\* peek() is defined: tokens[position] is a token.
HasToken(tokens, pos) == pos < Len(tokens)

peek(tokens, pos) == tokens[pos + 1]

IsOp(tokens, pos, ops) ==
    /\ HasToken(tokens, pos)
    /\ peek(tokens, pos).type = "operator"
    /\ peek(tokens, pos).value \in ops

\* The text ${token.value} writes.
Lexeme(token) ==
    IF token.type = "number" THEN NumStr(token.value)
    ELSE IF token.type \in {"function", "variable"} THEN token.value
    ELSE <<token.value>>

RECURSIVE parseAdditive(_, _)
RECURSIVE AdditiveLoop(_, _, _)
RECURSIVE AdditiveStep(_, _, _, _)
RECURSIVE parseMultiplicative(_, _)
RECURSIVE MultiplicativeLoop(_, _, _)
RECURSIVE MultiplicativeStep(_, _, _, _)
RECURSIVE parsePrimary(_, _)
RECURSIVE ArgumentsLoop(_, _, _)
RECURSIVE ArgumentsStep(_, _, _)

\* What follows a parse function's return: go on with `next` applied to the
\* node and position it returned, unless it threw.
Then(r, next(_, _)) == IF ~r.ok THEN r ELSE next(r.node, r.pos)

parseExpression(tokens, pos) == parseAdditive(tokens, pos)

\* left = { type: 'binary', operator: op.value, left, right }, and on with
\* the loop; r is what parseMultiplicative returned for the right operand.
AdditiveStep(tokens, left, op, r) ==
    IF ~r.ok THEN r
    ELSE AdditiveLoop(tokens, BinaryNode(op, left, r.node), r.pos)

\* AdditiveLoop taking only a primary as the right operand of + and -.
AdditiveLoopFlat(tokens, left, pos) ==
    IF IsOp(tokens, pos, {"+", "-"})
    THEN AdditiveStep(tokens, left, peek(tokens, pos).value,
                      parsePrimary(tokens, pos + 1))
    ELSE Parsed(left, pos)

\* while (position < tokens.length) of parseAdditive
AdditiveLoop(tokens, left, pos) ==
    IF IsOp(tokens, pos, {"+", "-"})
    THEN AdditiveStep(tokens, left, peek(tokens, pos).value,
                      parseMultiplicative(tokens, pos + 1))
    ELSE Parsed(left, pos)

parseAdditive(tokens, pos) ==
    Then(parseMultiplicative(tokens, pos),
         LAMBDA left, p : AdditiveLoop(tokens, left, p))

MultiplicativeStep(tokens, left, op, r) ==
    IF ~r.ok THEN r
    ELSE MultiplicativeLoop(tokens, BinaryNode(op, left, r.node), r.pos)

\* while (position < tokens.length) of parseMultiplicative
MultiplicativeLoop(tokens, left, pos) ==
    IF IsOp(tokens, pos, {"*", "/"})
    THEN MultiplicativeStep(tokens, left, peek(tokens, pos).value,
                            parsePrimary(tokens, pos + 1))
    ELSE Parsed(left, pos)

parseMultiplicative(tokens, pos) ==
    Then(parsePrimary(tokens, pos),
         LAMBDA left, p : MultiplicativeLoop(tokens, left, p))

\* args.push(parseExpression()) and on with the loop; a is what
\* parseExpression returned.
ArgumentsStep(tokens, args, a) ==
    IF ~a.ok THEN a ELSE ArgumentsLoop(tokens, Append(args, a.node), a.pos)

\* while (peek() && peek().type === 'comma'): args holds the nodes so far.
ArgumentsLoop(tokens, args, pos) ==
    IF HasToken(tokens, pos) /\ peek(tokens, pos).type = "comma"
    THEN ArgumentsStep(tokens, args, parseExpression(tokens, pos + 1))
    ELSE Parsed(args, pos)

\* The closing parenthesis after '(' Expression.
CloseParen(tokens, expr, pos) ==
    IF ~IsOp(tokens, pos, {")"})
    THEN Thrown(<<"Missing closing parenthesis">>)
    ELSE Parsed(expr, pos + 1)

\* CloseCall that rejects a call of distance without exactly 2 arguments.
CloseCallCounting(tokens, funcName, args, pos) ==
    IF ~IsOp(tokens, pos, {")"})
    THEN Thrown(<<"Missing closing parenthesis for function '">>
                \o funcName \o <<"'">>)
    ELSE IF funcName = <<"d", "i", "s", "t", "a", "n", "c", "e">> /\ Len(args) # 2
    THEN Thrown(<<"distance function requires exactly 2 arguments">>)
    ELSE Parsed(FunctionNode(funcName, args), pos + 1)

\* The closing parenthesis after a function's arguments.
CloseCall(tokens, funcName, args, pos) ==
    IF ~IsOp(tokens, pos, {")"})
    THEN Thrown(<<"Missing closing parenthesis for function '">>
                \o funcName \o <<"'">>)
    ELSE Parsed(FunctionNode(funcName, args), pos + 1)

\* parsePrimary whose unary minus takes a whole multiplicative expression.
parsePrimaryGreedyMinus(tokens, pos) ==
    IF ~HasToken(tokens, pos) THEN Thrown(<<"Unexpected end of formula">>)
    ELSE IF peek(tokens, pos).type = "number"
    THEN Parsed(NumberNode(peek(tokens, pos).value), pos + 1)
    ELSE IF IsOp(tokens, pos, {"("})
    THEN Then(parseExpression(tokens, pos + 1),
              LAMBDA expr, p : CloseParen(tokens, expr, p))
    ELSE IF peek(tokens, pos).type = "function"
    THEN IF ~IsOp(tokens, pos + 1, {"("})
         THEN Thrown(<<"Expected '(' after function name '">>
                     \o peek(tokens, pos).value \o <<"'">>)
         ELSE Then(IF HasToken(tokens, pos + 2) /\ ~IsOp(tokens, pos + 2, {")"})
                   THEN ArgumentsStep(tokens, <<>>, parseExpression(tokens, pos + 2))
                   ELSE Parsed(<<>>, pos + 2),
                   LAMBDA args, p :
                       CloseCall(tokens, peek(tokens, pos).value, args, p))
    ELSE IF peek(tokens, pos).type = "variable"
    THEN Parsed(VariableNode(peek(tokens, pos).value), pos + 1)
    ELSE IF IsOp(tokens, pos, {"-"})
    THEN Then(parseMultiplicative(tokens, pos + 1),
              LAMBDA expr, p : Parsed(UnaryNode(expr), p))
    ELSE Thrown(<<"Unexpected token: ">> \o Lexeme(peek(tokens, pos)))

\* parsePrimary returning a number without consuming its token.
parsePrimaryNotConsuming(tokens, pos) ==
    IF ~HasToken(tokens, pos) THEN Thrown(<<"Unexpected end of formula">>)
    ELSE IF peek(tokens, pos).type = "number"
    THEN Parsed(NumberNode(peek(tokens, pos).value), pos)
    ELSE IF IsOp(tokens, pos, {"("})
    THEN Then(parseExpression(tokens, pos + 1),
              LAMBDA expr, p : CloseParen(tokens, expr, p))
    ELSE IF peek(tokens, pos).type = "function"
    THEN IF ~IsOp(tokens, pos + 1, {"("})
         THEN Thrown(<<"Expected '(' after function name '">>
                     \o peek(tokens, pos).value \o <<"'">>)
         ELSE Then(IF HasToken(tokens, pos + 2) /\ ~IsOp(tokens, pos + 2, {")"})
                   THEN ArgumentsStep(tokens, <<>>, parseExpression(tokens, pos + 2))
                   ELSE Parsed(<<>>, pos + 2),
                   LAMBDA args, p :
                       CloseCall(tokens, peek(tokens, pos).value, args, p))
    ELSE IF peek(tokens, pos).type = "variable"
    THEN Parsed(VariableNode(peek(tokens, pos).value), pos + 1)
    ELSE IF IsOp(tokens, pos, {"-"})
    THEN Then(parsePrimary(tokens, pos + 1),
              LAMBDA expr, p : Parsed(UnaryNode(expr), p))
    ELSE Thrown(<<"Unexpected token: ">> \o Lexeme(peek(tokens, pos)))

parsePrimary(tokens, pos) ==
    IF ~HasToken(tokens, pos) THEN Thrown(<<"Unexpected end of formula">>)
    ELSE IF peek(tokens, pos).type = "number"
    THEN Parsed(NumberNode(peek(tokens, pos).value), pos + 1)
    ELSE IF IsOp(tokens, pos, {"("})
    THEN Then(parseExpression(tokens, pos + 1),
              LAMBDA expr, p : CloseParen(tokens, expr, p))
    ELSE IF peek(tokens, pos).type = "function"
    THEN IF ~IsOp(tokens, pos + 1, {"("})
         THEN Thrown(<<"Expected '(' after function name '">>
                     \o peek(tokens, pos).value \o <<"'">>)
         ELSE Then(IF HasToken(tokens, pos + 2) /\ ~IsOp(tokens, pos + 2, {")"})
                   THEN ArgumentsStep(tokens, <<>>, parseExpression(tokens, pos + 2))
                   ELSE Parsed(<<>>, pos + 2),
                   LAMBDA args, p :
                       CloseCall(tokens, peek(tokens, pos).value, args, p))
    ELSE IF peek(tokens, pos).type = "variable"
    THEN Parsed(VariableNode(peek(tokens, pos).value), pos + 1)
    ELSE IF IsOp(tokens, pos, {"-"})
    THEN Then(parsePrimary(tokens, pos + 1),
              LAMBDA expr, p : Parsed(UnaryNode(expr), p))
    ELSE Thrown(<<"Unexpected token: ">> \o Lexeme(peek(tokens, pos)))

\* EndOfTokens that leaves trailing tokens alone.
EndOfTokensIgnored(tokens, ast, pos) == Parsed(ast, pos)

\* if (position < tokens.length) throw ...; return ast
EndOfTokens(tokens, ast, pos) ==
    IF pos < Len(tokens)
    THEN Thrown(<<"Unexpected token: ">> \o Lexeme(tokens[pos + 1]))
    ELSE Parsed(ast, pos)

\* parse(tokens): the AST in .node, or the thrown message.
parse(tokens) ==
    Then(parseExpression(tokens, 0),
         LAMBDA ast, p : EndOfTokens(tokens, ast, p))

(***************************************************************************)
(* Evaluator.  evaluate returns [ok |-> TRUE, value] or, where the code    *)
(* throws, [ok |-> FALSE, msg].  A context is [present, pts]: present is   *)
(* FALSE when no landmark array was passed (null / undefined), pts is the  *)
(* array (landmark id k is pts[k + 1]).                                    *)
(***************************************************************************)
Value(v) == [ok |-> TRUE, value |-> v]

Str(text) == <<text>>

NoLandmark == [found |-> FALSE]

\* context.landmarks[id]: undefined unless id is an index of the array.
ArrayGet(pts, id) ==
    IF IsInteger(id) /\ id.n >= 0 /\ id.n < Len(pts)
    THEN [found |-> TRUE, lm |-> pts[id.n + 1]]
    ELSE NoLandmark

\* getLandmark bringing the id into the range 0..20 instead of rejecting it.
getLandmarkClamped(id, context) ==
    IF ~context.present THEN NoLandmark
    ELSE ArrayGet(context.pts, MathMax(Num(0), MathMin(Num(20), id)))

getLandmark(id, context) ==
    IF ~context.present \/ Lt(id, Num(0)) \/ Gt(id, Num(20))
    THEN NoLandmark
    ELSE ArrayGet(context.pts, id)

\* calculateDistance over the display coordinates x, y, z.
calculateDistanceDisplay(landmark1, landmark2) ==
    LET dx == Sub(landmark1.x, landmark2.x)
        dy == Sub(landmark1.y, landmark2.y)
        dz == Sub(landmark1.z, landmark2.z)
    IN  MathSqrt(Add(Add(Mul(dx, dx), Mul(dy, dy)), Mul(dz, dz)))

calculateDistance(landmark1, landmark2) ==
    LET dx == Sub(landmark1.x3D, landmark2.x3D)
        dy == Sub(landmark1.y3D, landmark2.y3D)
        dz == Sub(landmark1.z3D, landmark2.z3D)
    IN  MathSqrt(Add(Add(Mul(dx, dx), Mul(dy, dy)), Mul(dz, dz)))

toVector(a, b) ==
    [x |-> Sub(b.x, a.x), y |-> Sub(b.y, a.y), z |-> Sub(b.z, a.z)]

crossProduct(v1, v2) ==
    [x |-> Sub(Mul(v1.y, v2.z), Mul(v1.z, v2.y)),
     y |-> Sub(Mul(v1.z, v2.x), Mul(v1.x, v2.z)),
     z |-> Sub(Mul(v1.x, v2.y), Mul(v1.y, v2.x))]

\* v / Math.hypot(v.x, v.y, v.z).  The length is kept as its square len2:
\* the result stands for (x, y, z) / sqrt(len2), every component of which is
\* NaN (0 / 0) when v is the zero vector.
normalize(v) ==
    [x |-> v.x, y |-> v.y, z |-> v.z,
     len2 |-> Add(Add(Mul(v.x, v.x), Mul(v.y, v.y)), Mul(v.z, v.z))]

\* The dot product of a normalized vector with a plain one: s / sqrt(len2).
dotProduct(v1, v2) ==
    [s |-> Add(Add(Mul(v1.x, v2.x), Mul(v1.y, v2.y)), Mul(v1.z, v2.z)),
     len2 |-> v1.len2]

\* Math.acos(dot) * (180 / Math.PI) for dot = s / sqrt(len2): NaN when dot is
\* NaN, else the angle in degrees, rounded down to the angles whose squared
\* cosine is rational (0, 30, 45, 60, 90, 120, 135, 150, 180).
AcosDegrees(dot) ==
    IF IsNaN(dot.s) \/ IsNaN(dot.len2) \/ IsZero(dot.len2) THEN NaN
    ELSE LET c2 == Div(Mul(dot.s, dot.s), dot.len2)
             a  == IF c2 = Num(1) THEN 0
                   ELSE IF Ge(c2, Rat(3, 4)) THEN 30
                   ELSE IF Ge(c2, Rat(1, 2)) THEN 45
                   ELSE IF Ge(c2, Rat(1, 4)) THEN 60
                   ELSE 90
             b  == IF c2 = Num(1) THEN 0
                   ELSE IF Gt(c2, Rat(3, 4)) THEN 0
                   ELSE IF Gt(c2, Rat(1, 2)) THEN 30
                   ELSE IF Gt(c2, Rat(1, 4)) THEN 45
                   ELSE IF Gt(c2, Num(0)) THEN 60
                   ELSE 90
         IN  IF Ge(dot.s, Num(0)) THEN Num(b) ELSE Num(180 - a)

cameraDirection == [x |-> Num(0), y |-> Num(-1), z |-> Num(0)]

rotation(landmark1, landmark2, landmark3, direction) ==
    LET v1 == toVector(landmark1, landmark2)
        v2 == toVector(landmark1, landmark3)
        normal == normalize(crossProduct(v1, v2))
        dot == dotProduct(normal, direction)
    IN  AcosDegrees(dot)

\* name.match(/^L\[(\d+)\]\.([xyz])$/): the end of the digit run, 0 if no match.
MatchDot(name) ==
    LET e == ScanWhile(name, 3, Digits)
    IN  IF /\ Len(name) >= 6
           /\ name[1] = "L" /\ name[2] = "["
           /\ e > 3 /\ Len(name) = e + 2
           /\ name[e] = "]" /\ name[e + 1] = "."
           /\ name[e + 2] \in {"x", "y", "z"}
        THEN e ELSE 0

\* name.match(/^L([xyz])\[(\d+)\]$/): the end of the digit run, 0 if no match.
MatchAlt(name) ==
    LET e == ScanWhile(name, 4, Digits)
    IN  IF /\ Len(name) >= 5
           /\ name[1] = "L" /\ name[2] \in {"x", "y", "z"} /\ name[3] = "["
           /\ e > 4 /\ Len(name) = e
           /\ name[e] = "]"
        THEN e ELSE 0

\* landmark[`${coord}3D`]
Coord3D(landmark, coord) ==
    CASE coord = "x" -> landmark.x3D
      [] coord = "y" -> landmark.y3D
      [] coord = "z" -> landmark.z3D

\* parseInt(digits, 10)
ParseInt(digits) == Num(DigitsVal(digits))

InvalidLandmarkID(id) == Thrown(Str("Invalid landmark ID: ") \o NumStr(id))

getVariableValue(name, context) ==
    LET e1 == MatchDot(name)
        e2 == MatchAlt(name)
    IN  IF e1 # 0
        THEN LET id == ParseInt(SubSeq(name, 3, e1 - 1))
                 landmark == getLandmark(id, context)
             IN  IF ~landmark.found THEN InvalidLandmarkID(id)
                 ELSE Value(Coord3D(landmark.lm, name[e1 + 2]))
        ELSE IF e2 # 0
        THEN LET id == ParseInt(SubSeq(name, 4, e2 - 1))
                 landmark == getLandmark(id, context)
             IN  IF ~landmark.found THEN InvalidLandmarkID(id)
                 ELSE Value(Coord3D(landmark.lm, name[2]))
        ELSE Thrown(Str("Unknown variable: ") \o name)

distanceName == <<"d", "i", "s", "t", "a", "n", "c", "e">>

rotationYName == <<"r", "o", "t", "a", "t", "i", "o", "n", "Y">>

mapName == <<"m", "a", "p">>

\* The body of `if (ast.name === 'distance')`.
distanceCall(args, context) ==
    IF Len(args) # 2
    THEN Thrown(Str("distance function requires exactly 2 arguments"))
    ELSE LET landmark1 == getLandmark(args[1], context)
             landmark2 == getLandmark(args[2], context)
         IN  IF ~landmark1.found \/ ~landmark2.found
             THEN Thrown(Str("Invalid landmark ID(s): ") \o NumStr(args[1])
                         \o <<",", " ">> \o NumStr(args[2]))
             ELSE Value(calculateDistance(landmark1.lm, landmark2.lm))

\* The body of `if (ast.name === 'rotationY')`.
rotationYCall(args, context) ==
    IF Len(args) # 3
    THEN Thrown(Str("distance function requires exactly 2 arguments"))
    ELSE LET landmark1 == getLandmark(args[1], context)
             landmark2 == getLandmark(args[2], context)
             landmark3 == getLandmark(args[3], context)
         IN  IF ~landmark1.found \/ ~landmark2.found \/ ~landmark3.found
             THEN Thrown(Str("Invalid landmark ID(s): ") \o NumStr(args[1])
                         \o <<",", " ">> \o NumStr(args[2])
                         \o <<",", " ">> \o NumStr(args[3]))
             ELSE Value(rotation(landmark1.lm, landmark2.lm, landmark3.lm,
                                 cameraDirection))

\* mapInterpolate without the division by the width of the input range.
mapInterpolateUnscaled(value, domain1Min, domain1Max, domain2Min, domain2Max) ==
    Add(domain2Min, Mul(Sub(value, domain1Min), Sub(domain2Max, domain2Min)))

\* The interpolation of map, reached when neither bound test succeeded.
mapInterpolate(value, domain1Min, domain1Max, domain2Min, domain2Max) ==
    LET normalizedValue ==
            Div(Sub(value, domain1Min), Sub(domain1Max, domain1Min))
    IN  Add(domain2Min, Mul(normalizedValue, Sub(domain2Max, domain2Min)))

\* The body of `if (ast.name === 'map')`.
mapCall(args) ==
    IF Len(args) # 5
    THEN Thrown(Str("map function requires exactly 5 arguments: value, domain_1_min, domain_1_max, domain_2_min, domain_2_max"))
    ELSE LET value == args[1]
             domain1Min == args[2]
             domain1Max == args[3]
             domain2Min == args[4]
             domain2Max == args[5]
         IN  IF Le(value, domain1Min) THEN Value(domain2Min)
             ELSE IF Ge(value, domain1Max) THEN Value(domain2Max)
             ELSE Value(mapInterpolate(value, domain1Min, domain1Max,
                                       domain2Min, domain2Max))

\* binaryOp without the test of the right operand of a division.
binaryOpUnchecked(operator, left, right) ==
    CASE operator = "+" -> Value(Add(left, right))
      [] operator = "-" -> Value(Sub(left, right))
      [] operator = "*" -> Value(Mul(left, right))
      [] operator = "/" -> Value(Div(left, right))
      [] OTHER -> Thrown(Str("Unknown operator: ") \o <<operator>>)

\* switch (ast.operator) of a binary node, both operands evaluated.
binaryOp(operator, left, right) ==
    CASE operator = "+" -> Value(Add(left, right))
      [] operator = "-" -> Value(Sub(left, right))
      [] operator = "*" -> Value(Mul(left, right))
      [] operator = "/" ->
            IF StrictEq(right, Num(0)) THEN Thrown(Str("Division by zero"))
            ELSE Value(Div(left, right))
      [] OTHER -> Thrown(Str("Unknown operator: ") \o <<operator>>)

\* The dispatch on ast.name, all arguments evaluated.
functionCall(name, args, context) ==
    IF name = distanceName THEN distanceCall(args, context)
    ELSE IF name = rotationYName THEN rotationYCall(args, context)
    ELSE IF name = mapName THEN mapCall(args)
    ELSE Thrown(Str("Unknown function: ") \o name)

RECURSIVE evaluate(_, _)
RECURSIVE evaluateArguments(_, _, _)

RECURSIVE evaluateArgumentsFromRight(_, _, _)

\* The arguments evaluated from the last to the first; done holds the
\* values of the last ones.
evaluateArgumentsFromRight(arguments, done, context) ==
    IF Len(done) = Len(arguments) THEN Value(done)
    ELSE LET a == evaluate(arguments[Len(arguments) - Len(done)], context)
         IN  IF ~a.ok THEN a
             ELSE evaluateArgumentsFromRight(arguments, <<a.value>> \o done,
                                             context)

\* ast.arguments.map(arg => evaluate(arg, context)): left to right, the
\* first throw ends it.  done holds the values so far.
evaluateArguments(arguments, done, context) ==
    IF Len(done) = Len(arguments) THEN Value(done)
    ELSE LET a == evaluate(arguments[Len(done) + 1], context)
         IN  IF ~a.ok THEN a
             ELSE evaluateArguments(arguments, Append(done, a.value), context)

\* evaluate(ast, context); ast is never null here, parse returns a node.
evaluate(ast, context) ==
    CASE ast.type = "number" -> Value(ast.value)
      [] ast.type = "binary" ->
            LET left == evaluate(ast.left, context)
            IN  IF ~left.ok THEN left
                ELSE LET right == evaluate(ast.right, context)
                     IN  IF ~right.ok THEN right
                         ELSE binaryOp(ast.operator, left.value, right.value)
      [] ast.type = "unary" ->
            LET value == evaluate(ast.expression, context)
            IN  IF ~value.ok THEN value ELSE Value(Neg(value.value))
      [] ast.type = "function" ->
            LET args == evaluateArguments(ast.arguments, <<>>, context)
            IN  IF ~args.ok THEN args
                ELSE functionCall(ast.name, args.value, context)
      [] ast.type = "variable" -> getVariableValue(ast.name, context)
      [] OTHER -> Thrown(Str("Unknown AST node type: ") \o <<ast.type>>)

(***************************************************************************)
(* Public API of FormulaParser                                             *)
(***************************************************************************)
MIN_SERVO_VALUE == 0

MAX_SERVO_VALUE == 1023

\* The servo whose maximum is extended, and that maximum.
RotationServoId == 11

RotationServoMax == 4095

\* A servo id is a number or a string (a key of the formulas object).
NumberId(k) == [kind |-> "number", num |-> k, str |-> <<>>]

StringId(s) == [kind |-> "string", num |-> 0, str |-> s]

\* ToNumber of a string made of decimal digits; other strings are not ids.
StringToNumber(s) ==
    IF s # <<>> /\ \A k \in 1..Len(s) : s[k] \in Digits
    THEN Num(DigitsVal(s)) ELSE NaN

\* id === 11
StrictEqualsRotationId(id) == id.kind = "number" /\ id.num = RotationServoId

\* id == 11
LooseEqualsRotationId(id) ==
    IF id.kind = "number" THEN id.num = RotationServoId
    ELSE StringToNumber(id.str) = Num(RotationServoId)

maxFor(id) ==
    IF LooseEqualsRotationId(id) THEN RotationServoMax ELSE MAX_SERVO_VALUE

\* !formula || formula.trim() === ''
IsEmptyFormula(f) == f = <<>> \/ Trim(f) = <<>>

\* The try block of the public evaluate up to `const result = ...`: the
\* value of result, or the message of the error that is caught.
evaluateTry(f, lms) ==
    IF IsEmptyFormula(f) THEN Thrown(Str("Empty formula"))
    ELSE Then(parse(tokenize(f)), LAMBDA ast, p : evaluate(ast, lms))

\* Math.round(Math.max(CONFIG.MIN_SERVO_VALUE, Math.min(max, result)))
clampRound(id, r) ==
    MathRound(MathMax(Num(MIN_SERVO_VALUE), MathMin(Num(maxFor(id)), r)))

\* evaluateReturn that rethrows the caught error as it is.
evaluateReturnRethrown(id, r) ==
    IF r.ok THEN Value(clampRound(id, r.value)) ELSE Thrown(r.msg)

\* What the public evaluate returns or throws, r being the outcome of its
\* try block.
evaluateReturn(id, r) ==
    IF r.ok THEN Value(clampRound(id, r.value))
    ELSE Thrown(Str("Formula error: ") \o r.msg)

\* FormulaParser.evaluate(id, formula, landmarks)
FormulaParserEvaluate(id, f, lms) == evaluateReturn(id, evaluateTry(f, lms))

\* validate that also evaluates the formula, without landmarks.
validateByEvaluating(f) ==
    IF IsEmptyFormula(f) THEN FALSE
    ELSE Then(parse(tokenize(f)),
              LAMBDA ast, p : evaluate(ast, [present |-> FALSE, pts |-> <<>>])).ok

\* FormulaParser.validate(formula)
validate(f) ==
    IF IsEmptyFormula(f) THEN FALSE ELSE parse(tokenize(f)).ok

Null == [isNull |-> TRUE, str |-> <<>>]

Text(s) == [isNull |-> FALSE, str |-> s]

\* return null, or the catch block's return error.message
errorMessageOf(r) == IF r.ok THEN Null ELSE Text(r.msg)

\* getErrorMessage without the test for an empty formula.
getErrorMessageOfParse(f) == errorMessageOf(parse(tokenize(f)))

\* FormulaParser.getErrorMessage(formula)
getErrorMessage(f) ==
    IF IsEmptyFormula(f) THEN Text(Str("Empty formula"))
    ELSE errorMessageOf(parse(tokenize(f)))

(***************************************************************************)
(* FormulaParser as bundled with ServoControl (src/js/formula-parser.js):  *)
(* the same tokenizer, parser, validate and getErrorMessage; evaluate      *)
(* knows the function distance only, and the public evaluate takes         *)
(* (formula, landmarks) and clamps to MAX_SERVO_VALUE.                     *)
(***************************************************************************)
bundledFunctionCall(name, args, context) ==
    IF name = distanceName THEN distanceCall(args, context)
    ELSE Thrown(Str("Unknown function: ") \o name)

RECURSIVE bundledEvaluate(_, _)
RECURSIVE bundledEvaluateArguments(_, _, _)

bundledEvaluateArguments(arguments, done, context) ==
    IF Len(done) = Len(arguments) THEN Value(done)
    ELSE LET a == bundledEvaluate(arguments[Len(done) + 1], context)
         IN  IF ~a.ok THEN a
             ELSE bundledEvaluateArguments(arguments, Append(done, a.value), context)

bundledEvaluate(ast, context) ==
    CASE ast.type = "number" -> Value(ast.value)
      [] ast.type = "binary" ->
            LET left == bundledEvaluate(ast.left, context)
            IN  IF ~left.ok THEN left
                ELSE LET right == bundledEvaluate(ast.right, context)
                     IN  IF ~right.ok THEN right
                         ELSE binaryOp(ast.operator, left.value, right.value)
      [] ast.type = "unary" ->
            LET value == bundledEvaluate(ast.expression, context)
            IN  IF ~value.ok THEN value ELSE Value(Neg(value.value))
      [] ast.type = "function" ->
            LET args == bundledEvaluateArguments(ast.arguments, <<>>, context)
            IN  IF ~args.ok THEN args
                ELSE bundledFunctionCall(ast.name, args.value, context)
      [] ast.type = "variable" -> getVariableValue(ast.name, context)
      [] OTHER -> Thrown(Str("Unknown AST node type: ") \o <<ast.type>>)

bundledEvaluateTry(f, lms) ==
    IF IsEmptyFormula(f) THEN Thrown(Str("Empty formula"))
    ELSE Then(parse(tokenize(f)), LAMBDA ast, p : bundledEvaluate(ast, lms))

bundledEvaluateReturn(r) ==
    IF r.ok
    THEN Value(MathRound(MathMax(Num(MIN_SERVO_VALUE),
                                 MathMin(Num(MAX_SERVO_VALUE), r.value))))
    ELSE Thrown(Str("Formula error: ") \o r.msg)

\* FormulaParser.evaluate(formula, landmarks)
BundledFormulaParserEvaluate(f, lms) == bundledEvaluateReturn(bundledEvaluateTry(f, lms))

(***************************************************************************)
(* ServoControl.  formulas and calculatedPositions are objects keyed by    *)
(* the servo id (a property key, so 2 and "2" are the same key); an entry  *)
(* is absent (has = FALSE) or holds a formula text / a position.           *)
(***************************************************************************)
\* The servo ids the callers use.
ControlServoIds == {NumberId(1), NumberId(2), StringId(<<"2">>)}

\* The property key of a servo id.
KeyOf(id) == IF id.kind = "number" THEN id.num ELSE DigitsVal(id.str)

ServoKeys == {KeyOf(id) : id \in ControlServoIds}

NoFormula == [has |-> FALSE, text |-> <<>>]

Stored(f) == [has |-> TRUE, text |-> f]

NoPosition == [has |-> FALSE, value |-> Num(0)]

Position(v) == [has |-> TRUE, value |-> v]

\* formula && formula.trim() !== '' && !FormulaParser.validate(formula)
updateFormulaRejects(f) == ~IsEmptyFormula(f) /\ ~validate(f)

\* updateFormula storing the formula whether it was accepted or not.
updateFormulaStoreAlways(registry, id, f, accepted) ==
    [registry EXCEPT ![KeyOf(id)] = Stored(f)]

\* The registry after updateFormula(id, f): formulas[servoId] = formula
\* unless the call returned false before.
updateFormulaStore(registry, id, f, accepted) ==
    IF accepted THEN [registry EXCEPT ![KeyOf(id)] = Stored(f)] ELSE registry

\* The catch block of calculatePositions setting the position to 0.
positionOrZero(r, previous) ==
    IF r.ok THEN Position(r.value) ELSE Position(Num(0))

\* try { calculatedPositions[servoId] = position } catch { keep the
\* previous calculated position }; r is what FormulaParser.evaluate did.
positionOrPrevious(r, previous) ==
    IF r.ok THEN Position(r.value) ELSE previous

\* One pass of the loop of calculatePositions, for the entry of one key.
positionAfter(entry, lms, previous) ==
    IF ~entry.has \/ IsEmptyFormula(entry.text) THEN previous
    ELSE positionOrPrevious(BundledFormulaParserEvaluate(entry.text, lms), previous)

\* calculatePositions(landmarks): the calculated positions after it.
calculatePositions(registry, positions, lms) ==
    IF ~lms.present THEN positions
    ELSE [k \in ServoKeys |-> positionAfter(registry[k], lms, positions[k])]

\* ServoControl as created: empty objects, no callback.
ControlCreated ==
    /\ formulas = [k \in ServoKeys |-> NoFormula]
    /\ calculatedPositions = [k \in ServoKeys |-> NoPosition]
    /\ onCalculatedPositionsUpdateCallback = FALSE
    /\ notified = FALSE

\* The tokenizer is not running.
TokenizerIdle == index = 0

DEFAULT_MIN_CHANGE == 3

\* The robot address as not set: the empty string.
NoIp == ""

\* ServoControl's connection as created: no address, not connected, no
\* timer, nothing sent and nothing in flight.
NetworkCreated ==
    /\ robotIp = NoIp
    /\ minChangeThreshold = DEFAULT_MIN_CHANGE
    /\ lastSentPositions = [k \in ServoKeys |-> NoPosition]
    /\ isConnected = FALSE
    /\ sendTimer = FALSE
    /\ statusUpdateTimer = FALSE
    /\ requests = EmptyBag
    /\ received = {}

\* A fetch in flight: its method, the address it was sent to and, for a
\* POST, the positions in its body (an entry per servo key, absent or not).
Get(ip) ==
    [method |-> "GET", ip |-> ip, body |-> [k \in ServoKeys |-> NoPosition]]

Post(ip, positionsToSend) ==
    [method |-> "POST", ip |-> ip, body |-> positionsToSend]

Issued(reqs, r) == reqs (+) SetToBag({r})

Answered(reqs, r) == reqs (-) SetToBag({r})

\* getRobotStatus() up to its await: no request without an address.
getRobotStatus(ip, reqs) == IF ip = NoIp THEN reqs ELSE Issued(reqs, Get(ip))

MathAbs(a) == IF a.n < 0 THEN Neg(a) ELSE a

\* lastSentPositions[servoId] || 0
lastSentOrZero(entry) ==
    IF entry.has /\ ~IsNaN(entry.value) THEN entry.value ELSE Num(0)

\* The test of the loop of sendServoPositions letting a change equal to
\* the threshold through.
exceedsOrReachesThreshold(calculated, entry, threshold) ==
    ~Lt(MathAbs(Sub(calculated, lastSentOrZero(entry))), Num(threshold))

\* !(Math.abs(calculatedPosition - lastSentPosition) <= minChangeThreshold)
exceedsThreshold(calculated, entry, threshold) ==
    ~Le(MathAbs(Sub(calculated, lastSentOrZero(entry))), Num(threshold))

\* if (!robotIp || !isConnected) return
sendReturnsEarly(ip, connected) == ip = NoIp \/ ~connected

\* positionsToSend after the loop of sendServoPositions, by servo key.
positionsToSend(calculated, sent, threshold) ==
    [k \in ServoKeys |->
        IF calculated[k].has
           /\ exceedsThreshold(calculated[k].value, sent[k], threshold)
        THEN calculated[k] ELSE NoPosition]

IsEmptyBatch(batch) == \A k \in ServoKeys : ~batch[k].has

\* lastSentPositions after the loop: every position pushed is recorded.
recordedAsSent(sent, batch) ==
    [k \in ServoKeys |-> IF batch[k].has THEN batch[k] ELSE sent[k]]

\* sendServoPositions() up to its await: lastSentPositions and the
\* requests in flight after it.
sendServoPositionsRecord(ip, connected, calculated, sent, threshold) ==
    IF sendReturnsEarly(ip, connected) THEN sent
    ELSE recordedAsSent(sent, positionsToSend(calculated, sent, threshold))

sendServoPositionsFetch(ip, connected, calculated, sent, threshold, reqs) ==
    IF sendReturnsEarly(ip, connected)
       \/ IsEmptyBatch(positionsToSend(calculated, sent, threshold))
    THEN reqs
    ELSE Issued(reqs, Post(ip, positionsToSend(calculated, sent, threshold)))

\* isConnected after a fetch is answered: the try block sets it when the
\* response is ok, the catch block clears it otherwise.
connectedAfter(ok) == ok

\* What the robot holds after answering a request.
receivedAfter(r, ok, had) ==
    IF r.method = "POST" /\ ok
    THEN had \cup {<<k, r.body[k].value>> : k \in {j \in ServoKeys : r.body[j].has}}
    ELSE had

\* animationFrameId = null
NoFrame == 0

\* HandTracking as created: not tracking, no frame requested.
TrackingCreated ==
    /\ isTracking = FALSE
    /\ animationFrameId = NoFrame
    /\ frames = {}
    /\ detections = 0
    /\ onLandmarksUpdateCallback = FALSE
    /\ delivered = FALSE

OthersCreated == TokenizerIdle /\ NetworkCreated /\ TrackingCreated

(***************************************************************************)
(* Inputs: formulas, servo ids, landmark frames                            *)
(***************************************************************************)
\* Largest literal of the generated arithmetic formulas.
MaxLiteral == 4

\* Hand poses 0 .. MaxPose of the generated frames.
MaxPose == 3

\* CONFIG.SERVOS has the ids 1 .. NumServos.
NumServos == 11

ServoIds ==
    {NumberId(k) : k \in 1..NumServos} \cup {StringId(NatStr(k)) : k \in 1..NumServos}

\* Landmark k of the hand in pose q, as convertLandmarks builds it: display
\* coordinates x, y, z and metric coordinates x3D, y3D, z3D.
Landmark(k, q) ==
    [x   |-> Rat((k * (q + 1)) % 5, 10),
     y   |-> Rat(((k \div 3) + q * k) % 4, 10),
     z   |-> Rat((k * q) % 2, 10),
     x3D |-> Rat(((k * q) % 7) * 2, 100),
     y3D |-> Rat((k + q) % 4, 100),
     z3D |-> Rat((k % 3) * q, 100)]

\* No landmark array (null), an empty one, a hand of 21 landmarks.
NoLandmarks == [present |-> FALSE, pts |-> <<>>]

EmptyLandmarks == [present |-> TRUE, pts |-> <<>>]

Hand(q) == [present |-> TRUE, pts |-> [k \in 1..21 |-> Landmark(k - 1, q)]]

Hands == {Hand(q) : q \in 0..MaxPose}

Contexts == {NoLandmarks, EmptyLandmarks} \cup Hands

Axes == {"x", "y", "z"}

BinaryOps == {"+", "-", "*", "/"}

\* Texts of landmark ids used in generated formulas: valid ones, and ones
\* outside 0 .. 20.
ValidIdTexts == {NatStr(k) : k \in {0, 4, 5, 8, 17, 20}}

InvalidIdTexts == {NatStr(21), NatStr(25), <<"-", "1">>}

IdTexts == ValidIdTexts \cup InvalidIdTexts

DistanceFormula(i, j) == distanceName \o <<"(">> \o i \o <<",">> \o j \o <<")">>

RotationYFormula(i, j, k) ==
    rotationYName \o <<"(">> \o i \o <<",">> \o j \o <<",">> \o k \o <<")">>

\* L[i].a
DotFormula(i, a) == <<"L", "[">> \o i \o <<"]", ".", a>>

\* La[i]
AltFormula(i, a) == <<"L", a, "[">> \o i \o <<"]">>

LiteralTexts == {NatStr(k) : k \in 0..MaxLiteral}

Paren(e) == <<"(">> \o e \o <<")">>

Minus(e) == <<"-">> \o e

Atoms == LiteralTexts \cup {Minus(l) : l \in LiteralTexts}

\* a op b
OneOperator(as, bs) == {a \o <<op>> \o b : a \in as, op \in BinaryOps, b \in bs}

\* Arithmetic formulas with at most two binary operators.
ArithmeticFormulas ==
    LET one == OneOperator(LiteralTexts, LiteralTexts)
        par == {Paren(e) : e \in one}
    IN  Atoms \cup OneOperator(Atoms, Atoms)
          \cup OneOperator(one, LiteralTexts)
          \cup OneOperator(par, LiteralTexts)
          \cup OneOperator(LiteralTexts, par)
          \cup {Minus(e) : e \in par}
          \cup {Paren(e) : e \in LiteralTexts}

DistanceFormulas == {DistanceFormula(i, j) : i \in IdTexts, j \in IdTexts}

RotationIdTexts == {NatStr(k) : k \in {0, 5, 17, 21}}

RotationYFormulas ==
    {RotationYFormula(i, j, k) : i \in RotationIdTexts, j \in RotationIdTexts,
                                 k \in RotationIdTexts}

VariableIdTexts == {NatStr(k) : k \in {0, 4, 20, 21, 25}}

VariableFormulas ==
    {DotFormula(i, a) : i \in VariableIdTexts, a \in Axes}
      \cup {AltFormula(i, a) : i \in VariableIdTexts, a \in Axes}

\* map(distance(L[4],L[8]), 0, 0.1, 0, 1023)
SpecExample ==
    <<"m", "a", "p", "(", "d", "i", "s", "t", "a", "n", "c", "e", "(", "L", "[", "4", "]", ",", "L", "[", "8", "]", ")", ",", " ", "0", ",", " ", "0", ".", "1", ",", " ", "0", ",", " ", "1", "0", "2", "3", ")">>

\* map(distance(4,8), 0, 0.1, 0, 1023)
NumericExample ==
    <<"m", "a", "p", "(", "d", "i", "s", "t", "a", "n", "c", "e", "(", "4", ",", "8", ")", ",", " ", "0", ",", " ", "0", ".", "1", ",", " ", "0", ",", " ", "1", "0", "2", "3", ")">>

ClampFormulas ==
    {
     <<"2", "0", "0", "0">>,
     <<"5", "0", "0", "0">>,
     <<"4", "0", "9", "5">>,
     <<"4", "0", "9", "6">>,
     <<"1", "0", "2", "3">>,
     <<"1", "0", "2", "4">>,
     <<"1", "0", "2", "3", ".", "5">>,
     <<"4", "0", "9", "5", ".", "4">>,
     <<"0">>,
     <<"2", "-", "3">>,
     <<"1", "/", "2">>,
     <<"3", "/", "2">>,
     <<"5", "/", "2">>,
     <<"0", ".", "4">>,
     <<"1", "0", "2", "2", ".", "5">>
    }

MapFormulas ==
    {
     <<"m", "a", "p", "(", "-", "5", ",", "0", ",", "1", "0", ",", "0", ",", "1", "0", "0", ")">>,
     <<"m", "a", "p", "(", "1", "5", ",", "0", ",", "1", "0", ",", "0", ",", "1", "0", "0", ")">>,
     <<"m", "a", "p", "(", "5", ",", "0", ",", "1", "0", ",", "0", ",", "1", "0", "0", ")">>,
     <<"m", "a", "p", "(", "0", ",", "0", ",", "1", "0", ",", "0", ",", "1", "0", "0", ")">>,
     <<"m", "a", "p", "(", "1", "0", ",", "0", ",", "1", "0", ",", "0", ",", "1", "0", "0", ")">>,
     <<"m", "a", "p", "(", "3", ",", "3", ",", "3", ",", "1", ",", "2", ")">>,
     <<"m", "a", "p", "(", "2", ",", "3", ",", "3", ",", "1", ",", "2", ")">>,
     <<"m", "a", "p", "(", "4", ",", "3", ",", "3", ",", "1", ",", "2", ")">>,
     <<"m", "a", "p", "(", "5", ",", "1", "0", ",", "0", ",", "7", ",", "9", ")">>,
     <<"m", "a", "p", "(", "2", ".", "5", ",", "0", ",", "1", "0", ",", "1", "0", "0", ",", "0", ")">>,
     <<"m", "a", "p", "(", "r", "o", "t", "a", "t", "i", "o", "n", "Y", "(", "0", ",", "0", ",", "0", ")", ",", "1", ",", "1", ",", "0", ",", "1", "0", "0", ")">>,
     <<"m", "a", "p", "(", "r", "o", "t", "a", "t", "i", "o", "n", "Y", "(", "0", ",", "5", ",", "1", "7", ")", ",", "0", ",", "1", "8", "0", ",", "0", ",", "4", "0", "9", "5", ")">>,
     <<"m", "a", "p", "(", "r", "o", "t", "a", "t", "i", "o", "n", "Y", "(", "0", ",", "5", ",", "5", ")", ",", "0", ",", "1", "8", "0", ",", "0", ",", "1", "0", "2", "3", ")">>,
     <<"m", "a", "p", "(", "1", ",", "2", ",", "3", ",", "4", ")">>,
     <<"m", "a", "p", "(", ")">>,
     <<"m", "a", "p", "(", "d", "i", "s", "t", "a", "n", "c", "e", "(", "4", ",", "8", ")", ",", "0", ",", "0", ".", "1", ",", "0", ",", "1", "0", "2", "3", ")">>
    }

MiscFormulas ==
    {
     <<>>,
     <<" ", " ">>,
     <<" ", "2", " ", "+", " ", "3", " ">>,
     <<"f", "o", "o">>,
     <<"f", "o", "o", "(", "1", ")">>,
     <<"f", "o", "o", "(", ")">>,
     <<"L", "[", "4", "]">>,
     <<"x">>,
     <<"d", "i", "s", "t", "a", "n", "c", "e", "(", "0", ")">>,
     <<"d", "i", "s", "t", "a", "n", "c", "e", "(", "0", ",", "1", ",", "2", ")">>,
     <<"r", "o", "t", "a", "t", "i", "o", "n", "Y", "(", "0", ",", "5", ")">>,
     <<"2", ")">>,
     <<"(", "2">>,
     <<"(", "2", ")", "(", "3", ")">>,
     <<"1", ",", "2">>,
     <<"2", "+">>,
     <<"*", "2">>,
     <<"$">>,
     <<"2", "$", "+", "3">>,
     <<"1", ".", "2", ".", "3">>,
     <<".", "5">>,
     <<"-", "4", "/", "2", "*", "3">>,
     <<"2", "+", "3", "*", "4", "-", "8", "/", "4">>,
     <<"8", "/", "4", "/", "2", "*", "3">>,
     <<"5", "/", "0">>,
     <<"f", "o", "o", "/", "0">>,
     <<"f", "o", "o", "+", "1", "/", "0">>,
     <<"1", "/", "0", "+", "f", "o", "o">>,
     <<"m", "a", "p", "(", "5", "/", "0", ",", "0", ",", "1", "0", ",", "0", ",", "1", "0", "0", ")">>,
     <<"d", "i", "s", "t", "a", "n", "c", "e", "(", "0", ",", "4", "/", "0", ")">>,
     <<"1", "/", "(", "2", "-", "2", ")">>,
     <<"L", "x", "[", "0", "]", "/", "L", "y", "[", "0", "]">>,
     <<"d", "i", "s", "t", "a", "n", "c", "e", "(", "0", ",", "4", ")", "/", "d", "i", "s", "t", "a", "n", "c", "e", "(", "5", ",", "1", "7", ")">>,
     <<"d", "i", "s", "t", "a", "n", "c", "e", "(", "0", ".", "5", ",", "1", ")">>,
     <<"d", "i", "s", "t", "a", "n", "c", "e", "(", "L", "[", "4", "]", ",", "L", "[", "8", "]", ")">>,
     <<"d", "i", "s", "t", "a", "n", "c", "e", "(", "L", "x", "[", "4", "]", ",", "L", "y", "[", "8", "]", ")">>,
     <<"d", "i", "s", "t", "a", "n", "c", "e", "(", "1", "+", "3", ",", "2", "*", "4", ")">>,
     <<"L", "x", "[", "4", "]", "*", "1", "0", "0">>,
     <<"L", "z", "[", "2", "0", "]", "*", "1", "0", "0", "0", "+", "L", "y", "[", "0", "]", "*", "1", "0", "0">>
    }

\* The examples of standard infix arithmetic.
ArithmeticExamples ==
    {
     <<"2", "+", "3", "*", "4">>,
     <<"(", "2", "+", "3", ")", "*", "4">>,
     <<"8", "-", "3", "-", "2">>,
     <<"8", "/", "4", "/", "2">>,
     <<"2", "+", "3", "*", "4", "-", "8", "/", "4">>,
     <<"8", "/", "4", "/", "2", "*", "3">>,
     <<"1", ".", "5", "*", "4">>,
     <<"-", "4", "/", "2", "*", "3">>
    }

\* Largest number of arguments of the generated calls.
MaxArgs == 6

FunctionNames == {distanceName, rotationYName, mapName, <<"f", "o", "o">>}

RECURSIVE Ones(_)
\* n arguments 1, separated by commas.
Ones(n) == IF n = 0 THEN <<>>
           ELSE IF n = 1 THEN <<"1">>
           ELSE Ones(n - 1) \o <<",", "1">>

\* name(1,...,1) with n arguments
CallFormula(name, n) == name \o <<"(">> \o Ones(n) \o <<")">>

CallFormulas == {CallFormula(name, n) : name \in FunctionNames, n \in 0..MaxArgs}

\* Formulas for the syntax rules: whitespace, trailing tokens, unary minus
\* and calls with any number of arguments.
SyntaxFormulas ==
    {
     <<"2", " ", "x">>,
     <<"2", "x">>,
     <<"2", " ", "3">>,
     <<"a", " ", "b">>,
     <<"a", "b">>,
     <<"1", " ", ".", " ", "5">>,
     <<"d", "i", "s", "t", " ", "a", "n", "c", "e", "(", "0", ",", " ", "4", ")">>,
     <<"f", "o", " ", "o", "(", "1", ")">>,
     <<"f", "o", "o", "(", "1", ",", "2", ",", "3", ")">>,
     <<"f", "o", "o", "(", "1", ",", "2", ")">>,
     <<"d", "i", "s", "t", "a", "n", "c", "e", "(", ")">>,
     <<"r", "o", "t", "a", "t", "i", "o", "n", "Y", "(", ")">>,
     <<"r", "o", "t", "a", "t", "i", "o", "n", "Y", "(", "0", ",", "5", ",", "1", "7", ",", "0", ")">>,
     <<"m", "a", "p", "(", "1", ",", "2", ")">>,
     <<"m", "a", "p", "(", "1", ",", "2", ",", "3", ",", "4", ",", "5", ",", "6", ")">>,
     <<"-", "-", "2">>,
     <<"-", "(", "2", "*", "3", ")", "+", "1">>,
     <<"-", "2", "*", "3", "+", "1">>,
     <<"2", "*", "-", "3">>,
     <<"2", "-", "-", "3">>,
     <<"(", "2", ")", "3">>,
     <<"2", ")", "3">>,
     <<"2", "(", "3", ")">>,
     <<"f", "o", "o", "(", "1", ")", "2">>,
     <<"(", "2", ")", "x">>,
     <<"1", ",", "2", ",", "3">>,
     <<"2", ".", "5", "0", ")">>,
     <<"\t", "2", "\n", "+", " ", "3">>
    }

\* Calls with an argument whose evaluation fails, the call itself being
\* wrong as well (unknown name, wrong count, landmark out of range) or not.
ArgumentErrorFormulas ==
    {
     <<"f", "o", "o", "(", "1", "/", "0", ")">>,
     <<"d", "i", "s", "t", "a", "n", "c", "e", "(", "1", "/", "0", ")">>,
     <<"d", "i", "s", "t", "a", "n", "c", "e", "(", "f", "o", "o", ",", "1", "/", "0", ")">>,
     <<"d", "i", "s", "t", "a", "n", "c", "e", "(", "1", "/", "0", ",", "f", "o", "o", ")">>,
     <<"d", "i", "s", "t", "a", "n", "c", "e", "(", "2", "5", ",", "1", "/", "0", ")">>,
     <<"d", "i", "s", "t", "a", "n", "c", "e", "(", "0", ",", "b", "a", "r", ")">>,
     <<"r", "o", "t", "a", "t", "i", "o", "n", "Y", "(", "0", ",", "b", "a", "r", ")">>,
     <<"m", "a", "p", "(", "1", ",", "f", "o", "o", ",", "2", ")">>,
     <<"f", "o", "o", "(", "b", "a", "r", "(", "1", ")", ")">>,
     <<"d", "i", "s", "t", "a", "n", "c", "e", "(", "4", ",", "8", ",", "1", "/", "0", ")">>,
     <<"f", "o", "o", "(", "2", ",", "x", ",", "1", "/", "0", ")">>
    }

\* Formulas with characters the tokenizer has no rule for, and digit runs
\* with more than one '.'.
LexicalFormulas ==
    {
     <<"2", "$", "3">>,
     <<"a", "$", "b">>,
     <<"2", " ", "$", " ", "+", " ", "3">>,
     <<"f", "o", "o", "$", "(", "1", ")">>,
     <<"f", "o", "o", ".", "(", "1", ")">>,
     <<"a", ".", "b">>,
     <<"(", ".", "5", ")">>,
     <<"1", ".", ".", "5">>,
     <<"1", ".", "2", ".">>,
     <<"a", "1", ".", "5">>,
     <<"#", "2">>,
     <<"2", "@">>,
     <<"d", "i", "s", "t", "a", "n", "c", "e", "$", "(", "0", ",", "4", ")">>,
     <<"1", ".", "5", ".", "2", ".", "5">>,
     <<"2", ".", "$", "5">>,
     <<".", ".">>,
     <<"2", " ", ".", " ", "5">>,
     <<"x", "#", "(", "#", ")">>,
     <<"1", ".", "2", ".", "3", "+", "1">>
    }

LandmarkFormulas ==
    DistanceFormulas \cup RotationYFormulas \cup VariableFormulas
      \cup MapFormulas \cup MiscFormulas \cup {SpecExample, NumericExample}
      \cup ArgumentErrorFormulas

Input(f, id, lms) == [formula |-> f, servoId |-> id, landmarks |-> lms]

Inputs ==
    {Input(f, NumberId(1), NoLandmarks) :
        f \in ArithmeticFormulas \cup ArithmeticExamples \cup SyntaxFormulas
                \cup CallFormulas \cup LexicalFormulas}
      \cup {Input(f, id, NoLandmarks) : f \in ClampFormulas, id \in ServoIds}
      \cup {Input(f, id, c) : f \in LandmarkFormulas,
                              id \in {NumberId(1), NumberId(RotationServoId)},
                              c \in Contexts}

(***************************************************************************)
(* The caller's view: inputs held by the caller, and the last call made.   *)
(* result is the value of the local `result` of the public evaluate (or    *)
(* the error its catch block received), out what the call returned or      *)
(* threw.                                                                  *)
(***************************************************************************)
NoCall == [ok |-> TRUE, value |-> "none"]

\* The caller has no call to remember.
NothingRemembered == [set |-> FALSE]

\* const tokens = [] and the loop of tokenize, run by a call on formula f
\* unless f is empty; old is the array of the call before.
TokensAfter(f, old) == IF IsEmptyFormula(f) THEN old ELSE tokenize(f)

Init ==
    /\ \E in \in Inputs :
          /\ formula = in.formula
          /\ servoId = in.servoId
          /\ landmarks = in.landmarks
    /\ call = "none"
    /\ result = NoCall
    /\ out = NoCall
    /\ lastTokens = <<>>
    /\ remembered = NothingRemembered
    /\ ControlCreated
    /\ OthersCreated

Evaluate ==
    /\ call' = "evaluate"
    /\ result' = evaluateTry(formula, landmarks)
    /\ out' = evaluateReturn(servoId, result')
    /\ lastTokens' = TokensAfter(formula, lastTokens)
    /\ UNCHANGED <<formula, servoId, landmarks, remembered>>
    /\ UNCHANGED controlVars
    /\ UNCHANGED otherVars

Validate ==
    /\ call' = "validate"
    /\ result' = NoCall
    /\ out' = Value(validate(formula))
    /\ lastTokens' = TokensAfter(formula, lastTokens)
    /\ UNCHANGED <<formula, servoId, landmarks, remembered>>
    /\ UNCHANGED controlVars
    /\ UNCHANGED otherVars

GetErrorMessage ==
    /\ call' = "getErrorMessage"
    /\ result' = NoCall
    /\ out' = Value(getErrorMessage(formula))
    /\ lastTokens' = TokensAfter(formula, lastTokens)
    /\ UNCHANGED <<formula, servoId, landmarks, remembered>>
    /\ UNCHANGED controlVars
    /\ UNCHANGED otherVars

Next == Evaluate \/ Validate \/ GetErrorMessage

Spec == Init /\ [][Next]_vars

(***************************************************************************)
(* Properties                                                              *)
(***************************************************************************)
Evaluated == call = "evaluate"

Validated == call = "validate"

ThrewWith(r, text) == ~r.ok /\ r.msg = text

IdNumber(text) == DigitsVal(text)

\* The landmark with the given id text in a full hand.
LandmarkOf(lms, text) == lms.pts[IdNumber(text) + 1]

\* C1: whenever the public evaluate returns, the value is an integer v with
\* MIN_SERVO_VALUE <= v <= the servo's maximum (never NaN, never fractional).
C1_ReturnsIntegerInRange ==
    (Evaluated /\ out.ok) =>
        /\ IsInteger(out.value)
        /\ out.value.n >= MIN_SERVO_VALUE
        /\ out.value.n <= maxFor(servoId)

(***************************************************************************)
(* Standard infix arithmetic, read off the characters of a formula: split  *)
(* at the last binary + or - outside parentheses, else at the last * or /  *)
(* outside parentheses, else a sign, a parenthesised formula or a literal. *)
(***************************************************************************)
Count(s, c) == Cardinality({k \in 1..Len(s) : s[k] = c})

\* Parenthesis depth in front of position i.
Depth(s, i) == Count(SubSeq(s, 1, i - 1), "(") - Count(SubSeq(s, 1, i - 1), ")")

\* Positions of the binary operators among ops that are outside parentheses.
BinaryAt(s, ops) ==
    {i \in 2..(Len(s) - 1) :
        /\ s[i] \in ops
        /\ Depth(s, i) = 0
        /\ s[i - 1] \in Digits \cup {")", "."}}

Last(S) == CHOOSE i \in S : \A j \in S : j <= i

\* A decimal literal: its digits over the power of ten of its fraction.
Literal(s) ==
    LET dot == {k \in 1..Len(s) : s[k] = "."}
        ds  == SelectSeq(s, LAMBDA c : c \in Digits)
    IN  IF dot = {} THEN Rat(DigitsVal(ds), 1)
        ELSE Rat(DigitsVal(ds), Pow10(Len(s) - Last(dot)))

Undefined == [def |-> FALSE, v |-> Num(0)]

Defined(v) == [def |-> TRUE, v |-> v]

Apply(op, l, r) ==
    IF ~l.def \/ ~r.def THEN Undefined
    ELSE CASE op = "+" -> Defined(Rat(l.v.n * r.v.d + r.v.n * l.v.d, l.v.d * r.v.d))
           [] op = "-" -> Defined(Rat(l.v.n * r.v.d - r.v.n * l.v.d, l.v.d * r.v.d))
           [] op = "*" -> Defined(Rat(l.v.n * r.v.n, l.v.d * r.v.d))
           [] op = "/" -> IF r.v.n = 0 THEN Undefined
                          ELSE Defined(Rat(l.v.n * r.v.d, l.v.d * r.v.n))

Negate(a) == IF ~a.def THEN a ELSE Defined(Rat(-a.v.n, a.v.d))

RECURSIVE Arithmetic(_)
SplitAt(s, i) ==
    Apply(s[i], Arithmetic(SubSeq(s, 1, i - 1)), Arithmetic(SubSeq(s, i + 1, Len(s))))

Arithmetic(s) ==
    IF BinaryAt(s, {"+", "-"}) # {} THEN SplitAt(s, Last(BinaryAt(s, {"+", "-"})))
    ELSE IF BinaryAt(s, {"*", "/"}) # {} THEN SplitAt(s, Last(BinaryAt(s, {"*", "/"})))
    ELSE IF Head(s) = "-" THEN Negate(Arithmetic(Tail(s)))
    ELSE IF Head(s) = "(" THEN Arithmetic(SubSeq(s, 2, Len(s) - 1))
    ELSE Defined(Literal(s))

ArithmeticDomain == ArithmeticFormulas \cup ArithmeticExamples

ExampleValue(text, v) == formula = text => result = Value(Num(v))

\* C2: a formula of number literals, + - * / and parentheses that does not
\* divide by zero evaluates to its value in standard infix arithmetic
\* (2+3*4 = 14, (2+3)*4 = 20, 8-3-2 = 3, 8/4/2 = 1).
C2_StandardArithmetic ==
    (Evaluated /\ formula \in ArithmeticDomain) =>
        /\ Arithmetic(formula).def => result = Value(Arithmetic(formula).v)
        /\ ExampleValue(<<"2", "+", "3", "*", "4">>, 14)
        /\ ExampleValue(<<"(", "2", "+", "3", ")", "*", "4">>, 20)
        /\ ExampleValue(<<"8", "-", "3", "-", "2">>, 3)
        /\ ExampleValue(<<"8", "/", "4", "/", "2">>, 1)

C2_Witness ==
    /\ Evaluated
    /\ formula = <<"2", "+", "3", "*", "4">>
    /\ result = Value(Num(14))
    /\ out = Value(Num(14))

\* The syntax tree of a formula that parses.
Parses(f) == ~IsEmptyFormula(f) /\ parse(tokenize(f)).ok

TreeOf(f) == parse(tokenize(f)).node

(***************************************************************************)
(* Evaluation of a tree reaches a division whose right operand evaluated   *)
(* to 0: operands and arguments are evaluated left to right, and nothing   *)
(* to the right of a failing one is evaluated.                             *)
(***************************************************************************)
RECURSIVE DividesByZero(_, _)
RECURSIVE ArgumentDividesByZero(_, _, _)
ArgumentDividesByZero(arguments, k, context) ==
    /\ k <= Len(arguments)
    /\ \/ DividesByZero(arguments[k], context)
       \/ /\ evaluate(arguments[k], context).ok
          /\ ArgumentDividesByZero(arguments, k + 1, context)

DividesByZero(ast, context) ==
    CASE ast.type = "binary" ->
            \/ DividesByZero(ast.left, context)
            \/ /\ evaluate(ast.left, context).ok
               /\ \/ DividesByZero(ast.right, context)
                  \/ /\ ast.operator = "/"
                     /\ evaluate(ast.right, context).ok
                     /\ IsZero(evaluate(ast.right, context).value)
      [] ast.type = "unary" -> DividesByZero(ast.expression, context)
      [] ast.type = "function" -> ArgumentDividesByZero(ast.arguments, 1, context)
      [] OTHER -> FALSE

DivisionByZero == Thrown(<<"Division by zero">>)

\* C3: when evaluation reaches a division whose right operand evaluated to
\* 0, evaluation fails with the error "Division by zero"; the public
\* evaluate throws "Formula error: Division by zero" and returns no value.
C3_DivisionByZeroFails ==
    (Evaluated /\ Parses(formula) /\ DividesByZero(TreeOf(formula), landmarks)) =>
        /\ result = DivisionByZero
        /\ out = Thrown(<<"Formula error: ", "Division by zero">>)

C3_Witness ==
    /\ Evaluated
    /\ formula = <<"1", "/", "(", "2", "-", "2", ")">>
    /\ DividesByZero(TreeOf(formula), landmarks)
    /\ result = DivisionByZero

InvalidLandmarkHeads == {"Invalid landmark ID(s): ", "Invalid landmark ID: "}

IsInvalidLandmarkError(r) == ~r.ok /\ Head(r.msg) \in InvalidLandmarkHeads

OutOfRange(text) == Head(text) = "-" \/ IdNumber(text) > 20

NoHand == landmarks \notin Hands

\* C4: a landmark access made by distance, by rotationY or by a coordinate
\* variable fails with an invalid-landmark error when its id is outside
\* 0..20 or when no landmarks are available (distance(0,25)).
C4_InvalidLandmarkFails ==
    Evaluated =>
        /\ \A i \in IdTexts, j \in IdTexts :
              (formula = DistanceFormula(i, j)
                  /\ (OutOfRange(i) \/ OutOfRange(j) \/ NoHand))
              => (IsInvalidLandmarkError(result) /\ ~out.ok)
        /\ \A i \in RotationIdTexts, j \in RotationIdTexts, k \in RotationIdTexts :
              (formula = RotationYFormula(i, j, k)
                  /\ (OutOfRange(i) \/ OutOfRange(j) \/ OutOfRange(k) \/ NoHand))
              => (IsInvalidLandmarkError(result) /\ ~out.ok)
        /\ \A i \in VariableIdTexts, a \in Axes :
              (formula = AltFormula(i, a) /\ (OutOfRange(i) \/ NoHand))
              => (IsInvalidLandmarkError(result) /\ ~out.ok)

C4_Witness ==
    /\ Evaluated
    /\ formula = DistanceFormula(<<"0">>, <<"2", "5">>)
    /\ landmarks \in Hands
    /\ result = Thrown(<<"Invalid landmark ID(s): ", "0", ",", " ", "2", "5">>)

Metric(landmark, a) ==
    CASE a = "x" -> landmark.x3D
      [] a = "y" -> landmark.y3D
      [] a = "z" -> landmark.z3D

\* C5: both spellings of a coordinate variable, L[i].a and La[i], validate
\* and evaluate to the coordinate a3D of landmark i.
C5_BothSpellingsAccepted ==
    \A i \in VariableIdTexts, a \in Axes :
        (~OutOfRange(i) /\ landmarks \in Hands
            /\ formula \in {DotFormula(i, a), AltFormula(i, a)})
        => /\ Validated => out = Value(TRUE)
           /\ Evaluated => result = Value(Metric(LandmarkOf(landmarks, i), a))

SquaredDistance3D(p, q) ==
    Add(Add(Mul(Sub(p.x3D, q.x3D), Sub(p.x3D, q.x3D)),
            Mul(Sub(p.y3D, q.y3D), Sub(p.y3D, q.y3D))),
        Mul(Sub(p.z3D, q.z3D), Sub(p.z3D, q.z3D)))

\* The distance d mapped from [0, 0.1] onto [0, 1023].
ExampleCommand(d) ==
    IF Le(d, Num(0)) THEN Num(0)
    ELSE IF Ge(d, Rat(1, 10)) THEN Num(1023)
    ELSE Mul(d, Num(10230))

TipDistance(lms) ==
    MathSqrt(SquaredDistance3D(LandmarkOf(lms, <<"4">>), LandmarkOf(lms, <<"8">>)))

Nearest(v) == Num((2 * v.n + v.d) \div (2 * v.d))

\* C6 as stated: map(distance(L[4],L[8]), 0, 0.1, 0, 1023) evaluates to a
\* servo command on a hand frame.
C6_SpecExampleEvaluates ==
    (Evaluated /\ formula = SpecExample /\ landmarks \in Hands) => out.ok

\* C6: map(distance(4,8), 0, 0.1, 0, 1023) is converted into the servo
\* command of the thumb-tip to index-tip distance on every hand frame; the
\* formula map(distance(L[4],L[8]), 0, 0.1, 0, 1023) validates, and its
\* evaluation fails with "Unknown variable: L[4]".
C6_NumericExampleEvaluates ==
    /\ (Evaluated /\ formula = NumericExample /\ landmarks \in Hands) =>
          /\ result = Value(ExampleCommand(TipDistance(landmarks)))
          /\ out = Value(Nearest(ExampleCommand(TipDistance(landmarks))))
    /\ (Validated /\ formula \in {NumericExample, SpecExample}) => out = Value(TRUE)
    /\ (Evaluated /\ formula = SpecExample) =>
          result = Thrown(<<"Unknown variable: ", "L", "[", "4", "]">>)

C6_Witness ==
    /\ Evaluated
    /\ formula = NumericExample
    /\ landmarks = Hand(1)
    /\ out = Value(Num(622))

IsMapCall(ast) ==
    ast.type = "function" /\ ast.name = mapName /\ Len(ast.arguments) = 5

Interpolates(a) == ~Le(a[1], a[2]) /\ ~Ge(a[1], a[3])

MapPolicy(a) ==
    IF Le(a[1], a[2]) THEN a[4]
    ELSE IF Ge(a[1], a[3]) THEN a[5]
    ELSE Add(a[4], Mul(Div(Sub(a[1], a[2]), Sub(a[3], a[2])), Sub(a[5], a[4])))

MapArguments == evaluateArguments(TreeOf(formula).arguments, <<>>, landmarks)

\* C7: map(v, inMin, inMax, outMin, outMax) is outMin when v <= inMin, else
\* outMax when v >= inMax, else the linear interpolation; the interpolation
\* is never reached with inMin = inMax.
C7_MapPolicy ==
    (Evaluated /\ Parses(formula) /\ IsMapCall(TreeOf(formula)) /\ MapArguments.ok) =>
        /\ result = Value(MapPolicy(MapArguments.value))
        /\ ~(Interpolates(MapArguments.value)
               /\ StrictEq(MapArguments.value[2], MapArguments.value[3]))

Same3D(p, q) == p.x3D = q.x3D /\ p.y3D = q.y3D /\ p.z3D = q.z3D

\* C8: distance(i, j) equals distance(j, i), is never negative, and is 0
\* exactly when landmarks i and j have the same x3D, y3D and z3D.
C8_DistanceSymmetric ==
    (Evaluated /\ landmarks \in Hands) =>
        \A i \in ValidIdTexts, j \in ValidIdTexts :
            formula = DistanceFormula(i, j) =>
                /\ result.ok
                /\ result = evaluateTry(DistanceFormula(j, i), landmarks)
                /\ Ge(result.value, Num(0))
                /\ IsZero(result.value)
                     <=> Same3D(LandmarkOf(landmarks, i), LandmarkOf(landmarks, j))

C8_Witness ==
    /\ Evaluated
    /\ formula = DistanceFormula(<<"4">>, <<"8">>)
    /\ landmarks = Hand(1)
    /\ result.ok
    /\ Gt(result.value, Num(0))
    /\ ~Same3D(LandmarkOf(landmarks, <<"4">>), LandmarkOf(landmarks, <<"8">>))

\* The ids that compare equal to 11: the number 11 and the string "11".
IsRotationServo(id) == id \in {NumberId(11), StringId(<<"1", "1">>)}

UpperBound(id) == IF IsRotationServo(id) THEN 4095 ELSE 1023

Clamped(v, hi) ==
    IF Gt(v, Num(hi)) THEN Num(hi)
    ELSE IF Lt(v, Num(0)) THEN Num(0)
    ELSE Nearest(v)

\* C9: a result that is a number is clamped to [0, 4095] when the servo id
\* is 11 (the number or the string "11") and to [0, 1023] for every other
\* servo id, then rounded to the nearest integer.
C9_ClampPerServo ==
    (Evaluated /\ result.ok /\ ~IsNaN(result.value)) =>
        out = Value(Clamped(result.value, UpperBound(servoId)))

C9_Witness ==
    /\ Evaluated
    /\ servoId = StringId(<<"1", "1">>)
    /\ formula = <<"5", "0", "0", "0">>
    /\ out = Value(Num(4095))

UnknownHeads == {"Unknown variable: ", "Unknown function: "}

Foo == <<"f", "o", "o">>

FooCall == <<"f", "o", "o", "(", "1", ")">>

\* C10: validate returns true exactly when the formula is non-empty after
\* trimming and tokenizes and parses; it does not evaluate, so a formula
\* whose evaluation fails with an unknown variable or function (foo,
\* foo(1)) validates.
C10_ValidateIsSyntactic ==
    /\ Validated =>
          out = Value(Trim(formula) # <<>> /\ parse(tokenize(formula)).ok)
    /\ (Validated /\ formula \in {Foo, FooCall}) => out = Value(TRUE)
    /\ (Evaluated /\ formula = Foo) =>
          result = Thrown(<<"Unknown variable: ">> \o Foo)
    /\ (Evaluated /\ formula = FooCall) =>
          result = Thrown(<<"Unknown function: ">> \o Foo)
    /\ (Evaluated /\ ~result.ok /\ Head(result.msg) \in UnknownHeads) =>
          validate(formula)

C10_Witness ==
    /\ Validated
    /\ formula = FooCall
    /\ out = Value(TRUE)
    /\ ~evaluateTry(formula, landmarks).ok

AskedForMessage == call = "getErrorMessage"

EmptyFormulaText == <<"Empty formula">>

\* C11: getErrorMessage(formula) returns null exactly when validate(formula)
\* returns true; for an empty or whitespace-only formula validate returns
\* false, getErrorMessage returns "Empty formula" and the public evaluate
\* fails with "Formula error: Empty formula".
C11_MessageIffInvalid ==
    /\ Validated => (out.value <=> getErrorMessage(formula) = Null)
    /\ AskedForMessage => (out.value = Null <=> validate(formula))
    /\ (\A k \in 1..Len(formula) : formula[k] \in Whitespace) =>
          /\ Validated => out = Value(FALSE)
          /\ AskedForMessage => out = Value(Text(EmptyFormulaText))
          /\ Evaluated => out = Thrown(<<"Formula error: ">> \o EmptyFormulaText)

C11_Witness ==
    /\ AskedForMessage
    /\ formula = <<" ", " ">>
    /\ out = Value(Text(EmptyFormulaText))
    /\ ~validate(formula)

LiteralNode(text) == NumberNode(Literal(text))

FormulaTree(text, tree) == formula = text => (Parses(formula) /\ TreeOf(formula) = tree)

\* C12: a unary minus applies to the single primary after it: -a op b is
\* Binary(op, Unary(a), b) for every operator, -(a op b) is Unary(Binary(op,
\* a, b)), -2+3 evaluates to 1 and -4/2*3 to ((-4)/2)*3 = -6.
C12_UnaryMinusTakesOnePrimary ==
    Evaluated =>
        /\ \A a \in LiteralTexts, b \in LiteralTexts, op \in BinaryOps :
              /\ FormulaTree(Minus(a) \o <<op>> \o b,
                             BinaryNode(op, UnaryNode(LiteralNode(a)), LiteralNode(b)))
              /\ FormulaTree(Minus(Paren(a \o <<op>> \o b)),
                             UnaryNode(BinaryNode(op, LiteralNode(a), LiteralNode(b))))
        /\ FormulaTree(<<"-", "4", "/", "2", "*", "3">>,
              BinaryNode("*", BinaryNode("/", UnaryNode(NumberNode(Num(4))),
                                         NumberNode(Num(2))),
                         NumberNode(Num(3))))
        /\ formula = <<"-", "2", "*", "3">> => result = Value(Num(-6))
        /\ formula = <<"-", "2", "+", "3">> => result = Value(Num(1))
        /\ formula = <<"-", "4", "/", "2", "*", "3">> => result = Value(Num(-6))
        /\ formula = <<"-", "(", "2", "+", "3", ")">> => result = Value(Num(-5))

C12_Witness ==
    /\ Evaluated
    /\ formula = <<"-", "2", "+", "3">>
    /\ TreeOf(formula) = BinaryNode("+", UnaryNode(NumberNode(Num(2))), NumberNode(Num(3)))
    /\ result = Value(Num(1))

\* What parseExpression returns on the formula's tokens.
Consumed(f) == parseExpression(tokenize(f), 0)

\* A complete expression is followed by at least one further token.
HasTrailingTokens(f) ==
    /\ ~IsEmptyFormula(f)
    /\ Consumed(f).ok
    /\ Consumed(f).pos < Len(tokenize(f))
    /\ parse(SubSeq(tokenize(f), 1, Consumed(f).pos)).ok

FirstUnconsumed(f) == tokenize(f)[Consumed(f).pos + 1]

UnexpectedToken(text) == <<"Unexpected token: ">> \o text

TrailingExample(text, lexeme) ==
    formula = text =>
        /\ HasTrailingTokens(formula)
        /\ parse(tokenize(formula)) = Thrown(UnexpectedToken(lexeme))

\* C13: when a complete expression is followed by at least one further
\* token (2), (2)(3), 2 x, 1,2), parse fails with "Unexpected token: "
\* followed by the first unconsumed token, and validate returns false.
C13_TrailingTokensRejected ==
    /\ (call # "none" /\ HasTrailingTokens(formula)) =>
          /\ parse(tokenize(formula))
                = Thrown(UnexpectedToken(Lexeme(FirstUnconsumed(formula))))
          /\ Validated => out = Value(FALSE)
          /\ AskedForMessage =>
                out = Value(Text(UnexpectedToken(Lexeme(FirstUnconsumed(formula)))))
          /\ Evaluated =>
                result = Thrown(UnexpectedToken(Lexeme(FirstUnconsumed(formula))))
    /\ TrailingExample(<<"2", ")">>, <<")">>)
    /\ TrailingExample(<<"(", "2", ")", "(", "3", ")">>, <<"(">>)
    /\ TrailingExample(<<"2", " ", "x">>, <<"x">>)
    /\ TrailingExample(<<"1", ",", "2">>, <<",">>)

C13_Witness ==
    /\ Validated
    /\ formula = <<"(", "2", ")", "(", "3", ")">>
    /\ HasTrailingTokens(formula)
    /\ out = Value(FALSE)

RequiredArguments(name) ==
    CASE name = distanceName -> 2
      [] name = rotationYName -> 3
      [] name = mapName -> 5

\* The wrong-argument-count errors; the one of rotationY carries the text
\* of distance.
ArgumentCountError(name) ==
    IF name = mapName
    THEN Thrown(<<"map function requires exactly 5 arguments: value, domain_1_min, domain_1_max, domain_2_min, domain_2_max">>)
    ELSE Thrown(<<"distance function requires exactly 2 arguments">>)

RECURSIVE OneNodes(_)
OneNodes(n) == IF n = 0 THEN <<>> ELSE Append(OneNodes(n - 1), NumberNode(Num(1)))

BuiltIns == {distanceName, rotationYName, mapName}

IsCall(f) == Parses(f) /\ TreeOf(f).type = "function"

CallArguments == evaluateArguments(TreeOf(formula).arguments, <<>>, landmarks)

\* C14: a call with any number of arguments, of any function name, parses;
\* distance with other than 2, rotationY with other than 3 and map with
\* other than 5 arguments (the arguments evaluating to numbers) validate
\* and fail at evaluation with a wrong-argument-count error.
C14_ArityCheckedAtEvaluation ==
    /\ \A name \in FunctionNames, n \in 0..MaxArgs :
          formula = CallFormula(name, n) =>
              /\ Parses(formula)
              /\ TreeOf(formula) = FunctionNode(name, OneNodes(n))
              /\ Validated => out = Value(TRUE)
              /\ AskedForMessage => out = Value(Null)
    /\ (IsCall(formula) /\ TreeOf(formula).name \in BuiltIns /\ CallArguments.ok
          /\ Len(TreeOf(formula).arguments) # RequiredArguments(TreeOf(formula).name)) =>
          /\ Validated => out = Value(TRUE)
          /\ Evaluated =>
                /\ result = ArgumentCountError(TreeOf(formula).name)
                /\ ~out.ok

C14_Witness ==
    /\ Evaluated
    /\ formula = CallFormula(mapName, 2)
    /\ validate(formula)
    /\ result = ArgumentCountError(mapName)

Descriptions ==
    {"Empty formula", "Unexpected end of formula", "Missing closing parenthesis",
     "Missing closing parenthesis for function '", "Unexpected token: ",
     "Division by zero", "Unknown variable: ", "Unknown function: ",
     "distance function requires exactly 2 arguments",
     "map function requires exactly 5 arguments: value, domain_1_min, domain_1_max, domain_2_min, domain_2_max",
     "Invalid landmark ID(s): ", "Invalid landmark ID: "}

FailsWith(text, description) ==
    formula = text => out = Thrown(<<"Formula error: ">> \o description)

\* C15: validate returns a boolean and getErrorMessage a string or null,
\* neither throws; every failure of the public evaluate is thrown with the
\* message "Formula error: " followed by the underlying description.
C15_FailuresConverted ==
    /\ Validated => (out.ok /\ out.value \in BOOLEAN)
    /\ AskedForMessage =>
          (out.ok /\ (out.value = Null \/ (~out.value.isNull /\ out.value.str # <<>>)))
    /\ Evaluated =>
          /\ out.ok <=> result.ok
          /\ ~result.ok =>
                /\ Head(result.msg) \in Descriptions
                /\ out = Thrown(<<"Formula error: ">> \o result.msg)
          /\ FailsWith(<<>>, <<"Empty formula">>)
          /\ FailsWith(<<"2", "+">>, <<"Unexpected end of formula">>)
          /\ FailsWith(<<"(", "2">>, <<"Missing closing parenthesis">>)
          /\ FailsWith(<<"5", "/", "0">>, <<"Division by zero">>)
          /\ FailsWith(<<"f", "o", "o">>, <<"Unknown variable: ", "f", "o", "o">>)
          /\ FailsWith(<<"f", "o", "o", "(", "1", ")">>,
                       <<"Unknown function: ", "f", "o", "o">>)
          /\ FailsWith(CallFormula(distanceName, 1),
                       <<"distance function requires exactly 2 arguments">>)
          /\ FailsWith(DistanceFormula(<<"0">>, <<"2", "5">>),
                       <<"Invalid landmark ID(s): ", "0", ",", " ", "2", "5">>)

C15_Witness ==
    /\ Evaluated
    /\ formula = <<"f", "o", "o">>
    /\ out = Thrown(<<"Formula error: ", "Unknown variable: ", "f", "o", "o">>)

\* The landmarks of frame a shown where those of frame b are shown: the
\* fields x3D, y3D, z3D of a with the display fields x, y, z of b.
WithDisplayOf(a, b) ==
    [a EXCEPT !.pts = [k \in 1..Len(a.pts) |->
        [a.pts[k] EXCEPT !.x = b.pts[k].x, !.y = b.pts[k].y, !.z = b.pts[k].z]]]

\* C17: two landmark contexts that agree on x3D, y3D, z3D of every landmark
\* and differ in the display fields x, y, z give the same evaluation result
\* for every formula.
C17_DependsOnlyOn3D ==
    (Evaluated /\ landmarks \in Hands) =>
        \A q \in 0..MaxPose :
            result = evaluateTry(formula, WithDisplayOf(landmarks, Hand(q)))

Inserted(f, k, w) == SubSeq(f, 1, k) \o <<w>> \o SubSeq(f, k + 1, Len(f))

Deleted(f, k) == SubSeq(f, 1, k - 1) \o SubSeq(f, k + 1, Len(f))

\* C18: inserting a whitespace character at any position of a formula, or
\* deleting one of its whitespace characters, does not change its tokens;
\* `2 3` is the single number 23 and `a b` the single identifier ab.
C18_WhitespaceInsignificant ==
    Validated =>
        /\ \A k \in 0..Len(formula), w \in Whitespace :
              tokenize(Inserted(formula, k, w)) = tokenize(formula)
        /\ \A k \in 1..Len(formula) :
              formula[k] \in Whitespace =>
                  tokenize(Deleted(formula, k)) = tokenize(formula)
        /\ formula = <<"2", " ", "3">> =>
              tokenize(formula) = <<NumberToken(Num(23))>>
        /\ formula = <<"a", " ", "b">> =>
              tokenize(formula) = <<VariableToken(<<"a", "b">>)>>

C18_Witness ==
    /\ Validated
    /\ formula = <<"2", " ", "3">>
    /\ tokenize(formula) = tokenize(<<"2", "3">>)
    /\ out = Value(TRUE)

(***************************************************************************)
(* Order of evaluation in a call                                           *)
(***************************************************************************)
\* The outcome of evaluating the k-th argument of the call on its own.
ArgumentOutcome(k) == evaluate(TreeOf(formula).arguments[k], landmarks)

DivisionByZeroText == Str("Division by zero")

\* C21: when the evaluation of an argument of a call fails, the call fails
\* with the error of the leftmost failing argument, whatever the function
\* name, the number of arguments and the landmark indices are; foo(1/0) and
\* distance(1/0) report a division by zero.
C21_ArgumentErrorsFirst ==
    (Evaluated /\ IsCall(formula)) =>
        /\ \A k \in 1..Len(TreeOf(formula).arguments) :
              (/\ ~ArgumentOutcome(k).ok
               /\ \A j \in 1..(k - 1) : ArgumentOutcome(j).ok)
                  => result = ArgumentOutcome(k)
        /\ formula \in {<<"f", "o", "o", "(", "1", "/", "0", ")">>, <<"d", "i", "s", "t", "a", "n", "c", "e", "(", "1", "/", "0", ")">>} =>
              result = Thrown(DivisionByZeroText)

C21_Witness ==
    /\ Evaluated
    /\ formula = <<"d", "i", "s", "t", "a", "n", "c", "e", "(", "2", "5", ",", "1", "/", "0", ")">>
    /\ landmarks = Hand(1)
    /\ ~ArgumentOutcome(2).ok
    /\ result = Thrown(DivisionByZeroText)

(***************************************************************************)
(* Digit runs and characters without a rule                                *)
(***************************************************************************)
\* f is one digit run: it starts with a digit and holds digits and dots.
IsDigitRun(f) ==
    /\ f # <<>>
    /\ f[1] \in Digits
    /\ \A k \in 1..Len(f) : f[k] \in Digits \cup {"."}

Dots(f) == Cardinality({k \in 1..Len(f) : f[k] = "."})

\* C22: a digit run with more than one '.' is one number token, and the
\* value of that token is no usable finite number (the run is not turned
\* into some other number).
C22_MultiDotUnparsable ==
    (Evaluated /\ IsDigitRun(formula) /\ Dots(formula) > 1) =>
        /\ Len(tokenize(formula)) = 1
        /\ tokenize(formula)[1].type = "number"
        /\ ~IsFinite(tokenize(formula)[1].value)
        /\ ~(result.ok /\ IsFinite(result.value))

\* The characters tokenize has a rule for; '.' has one inside a digit run.
RuledChars ==
    Whitespace \cup Digits \cup Letters \cup {"_", "[", "]"}
      \cup {"+", "-", "*", "/", "(", ")"} \cup {","}

\* The character at k of the stripped formula s is outside every rule: it
\* is no ruled character, and if it is a '.', no digit or '.' is before it.
Unruled(s, k) ==
    /\ s[k] \notin RuledChars
    /\ s[k] = "." => (k = 1 \/ s[k - 1] \notin Digits \cup {"."})

\* C23: a character outside every rule gives no token and no error and ends
\* the run before it: the tokens are those of what is before it followed by
\* those of what is after it.  `.5` is the number 5, and `2 $ + 3`
\* evaluates to 5.
C23_UnruledCharactersSkipped ==
    Evaluated =>
        /\ \A k \in 1..Len(StripWhitespace(formula)) :
              Unruled(StripWhitespace(formula), k) =>
                  tokenize(formula) =
                      tokenize(SubSeq(StripWhitespace(formula), 1, k - 1))
                        \o tokenize(SubSeq(StripWhitespace(formula), k + 1,
                                           Len(StripWhitespace(formula))))
        /\ formula = <<".", "5">> =>
              tokenize(formula) = <<NumberToken(Num(5))>>
        /\ formula = <<"2", " ", "$", " ", "+", " ", "3">> =>
              result = Value(Num(5))

C23_Witness ==
    /\ Evaluated
    /\ formula = <<"a", "$", "b">>
    /\ Unruled(StripWhitespace(formula), 2)
    /\ lastTokens = <<VariableToken(<<"a">>), VariableToken(<<"b">>)>>

(***************************************************************************)
(* Function and variable tokens                                            *)
(***************************************************************************)
IsOpenParen(token) == token = OperatorToken("(")

\* In the token sequence, every token of the given type is, or is not,
\* immediately followed by '('.
FollowedByParen(tokens, type, followed) ==
    \A k \in 1..Len(tokens) :
        tokens[k].type = type =>
            (k < Len(tokens) /\ IsOpenParen(tokens[k + 1])) = followed

ExpectedParenText == "Expected '(' after function name '"

\* No outcome of the public API carries the parser's "Expected '('" error.
NoExpectedParenError ==
    /\ ~IsEmptyFormula(formula) /\ ~parse(tokenize(formula)).ok =>
          parse(tokenize(formula)).msg[1] # ExpectedParenText
    /\ ~result.ok => result.msg[1] # ExpectedParenText
    /\ AskedForMessage /\ ~out.value.isNull =>
          out.value.str[1] # ExpectedParenText

\* C25 as stated: in the tokens of any formula each function token is
\* immediately followed by '(' and no variable token is, so that the
\* "Expected '(' after function name" error never occurs.
C25_IdentifiersClassifiedByParen ==
    call # "none" =>
        /\ FollowedByParen(tokenize(formula), "function", TRUE)
        /\ FollowedByParen(tokenize(formula), "variable", FALSE)
        /\ NoExpectedParenError

\* C25, amended: each function token is immediately followed by '(', and
\* the "Expected '(' after function name" error never occurs through the
\* public API; a variable token is immediately followed by '(' when a
\* skipped character stood between the identifier and the parenthesis, as
\* in foo$(1).
C25_FunctionTokensCalled ==
    call # "none" =>
        /\ FollowedByParen(tokenize(formula), "function", TRUE)
        /\ NoExpectedParenError
        /\ formula = <<"f", "o", "o", "$", "(", "1", ")">> =>
              /\ tokenize(formula)[1].type = "variable"
              /\ IsOpenParen(tokenize(formula)[2])

C25_Witness ==
    /\ AskedForMessage
    /\ formula = <<"f", "o", "o", "$", "(", "1", ")">>
    /\ lastTokens[1].type = "variable"
    /\ IsOpenParen(lastTokens[2])
    /\ out = Value(Text(<<"Unexpected token: ", "(">>))

(***************************************************************************)
(* A session: a caller making any sequence of calls of the public API,     *)
(* each with arguments of its choice, and remembering one of its calls of  *)
(* evaluate to compare later calls with.                                   *)
(***************************************************************************)
SessionFormulas ==
    {
     <<>>,
     <<"2", "+", "3", "*", "4">>,
     <<"5", "0", "0", "0">>,
     <<"f", "o", "o">>,
     <<"5", "/", "0">>,
     DistanceFormula(<<"4">>, <<"8">>)
    }

SessionInputs ==
    {Input(f, id, c) : f \in SessionFormulas,
                       id \in {NumberId(1), NumberId(RotationServoId)},
                       c \in {NoLandmarks, Hand(1)}}

\* The call the caller remembers, with its outcome; interleaved is set
\* once a call on another formula has been made since.
Remembered(in, o) == [set |-> TRUE, in |-> in, out |-> o, interleaved |-> FALSE]

Noted(old, f) ==
    IF old.set /\ old.in.formula # f THEN [old EXCEPT !.interleaved = TRUE]
    ELSE old

SessionInit ==
    /\ formula = <<>>
    /\ servoId = NumberId(1)
    /\ landmarks = NoLandmarks
    /\ call = "none"
    /\ result = NoCall
    /\ out = NoCall
    /\ lastTokens = <<>>
    /\ remembered = NothingRemembered
    /\ ControlCreated
    /\ OthersCreated

SessionEvaluate ==
    \E in \in SessionInputs :
        /\ formula' = in.formula
        /\ servoId' = in.servoId
        /\ landmarks' = in.landmarks
        /\ call' = "evaluate"
        /\ lastTokens' = TokensAfter(formula', lastTokens)
        /\ result' = evaluateTry(formula', landmarks')
        /\ out' = evaluateReturn(servoId', result')
        /\ remembered' \in {Noted(remembered, formula'), Remembered(in, out')}
        /\ UNCHANGED controlVars
        /\ UNCHANGED otherVars

SessionValidate ==
    \E in \in SessionInputs :
        /\ formula' = in.formula
        /\ servoId' = in.servoId
        /\ landmarks' = in.landmarks
        /\ call' = "validate"
        /\ lastTokens' = TokensAfter(formula', lastTokens)
        /\ result' = NoCall
        /\ out' = Value(validate(formula'))
        /\ remembered' = Noted(remembered, formula')
        /\ UNCHANGED controlVars
        /\ UNCHANGED otherVars

SessionGetErrorMessage ==
    \E in \in SessionInputs :
        /\ formula' = in.formula
        /\ servoId' = in.servoId
        /\ landmarks' = in.landmarks
        /\ call' = "getErrorMessage"
        /\ lastTokens' = TokensAfter(formula', lastTokens)
        /\ result' = NoCall
        /\ out' = Value(getErrorMessage(formula'))
        /\ remembered' = Noted(remembered, formula')
        /\ UNCHANGED controlVars
        /\ UNCHANGED otherVars

SessionNext == SessionEvaluate \/ SessionValidate \/ SessionGetErrorMessage

SessionSpec == SessionInit /\ [][SessionNext]_vars

SameAsRemembered ==
    remembered.set /\ remembered.in = Input(formula, servoId, landmarks)

\* C16: in any sequence of validate, getErrorMessage and evaluate calls, a
\* call of evaluate with the servo id, formula and landmarks of an earlier
\* call returns the same value or fails with the same error, whatever was
\* processed in between.
C16_EvaluateDeterministic ==
    (Evaluated /\ SameAsRemembered) => out = remembered.out

C16_Witness ==
    /\ Evaluated
    /\ SameAsRemembered
    /\ remembered.interleaved
    /\ formula = DistanceFormula(<<"4">>, <<"8">>)
    /\ out.ok
    /\ out = remembered.out

(***************************************************************************)
(* ServoControl driven by its callers: the UI committing formulas and      *)
(* registering its callback, hand tracking delivering landmark frames.     *)
(* formula, servoId and landmarks hold the arguments of the last call,     *)
(* those it does not take being cleared.                                   *)
(***************************************************************************)
ControlFormulas ==
    {
     <<>>,
     <<"2", "+", "3", "*", "4">>,
     <<"d", "i", "s", "t", "a", "n", "c", "e", "(", "4", ",", "8", ")", "*", "1", "0", "0", "0", "0">>,
     <<"f", "o", "o">>,
     <<"2", ")">>
    }

ControlFrames == {NoLandmarks, EmptyLandmarks, Hand(1)}

ControlInit ==
    /\ formula = <<>>
    /\ servoId = NumberId(1)
    /\ landmarks = NoLandmarks
    /\ call = "none"
    /\ result = NoCall
    /\ out = NoCall
    /\ lastTokens = <<>>
    /\ remembered = NothingRemembered
    /\ ControlCreated
    /\ OthersCreated

\* ServoControl.updateFormula(id, f)
updateFormulaCall(id, f) ==
    /\ servoId' = id
    /\ formula' = f
    /\ call' = "updateFormula"
    /\ result' = NoCall
    /\ out' = Value(~updateFormulaRejects(formula'))
    /\ formulas' = updateFormulaStore(formulas, servoId', formula', out'.value)
    /\ notified' = FALSE
    /\ landmarks' = NoLandmarks
    /\ UNCHANGED <<calculatedPositions, onCalculatedPositionsUpdateCallback>>
    /\ UNCHANGED sessionVars
    /\ UNCHANGED otherVars

UpdateFormula ==
    \E id \in ControlServoIds, f \in ControlFormulas : updateFormulaCall(id, f)

\* ServoControl.processLandmarks(lms), that is calculatePositions
processLandmarksCall(lms) ==
    /\ landmarks' = lms
    /\ call' = "processLandmarks"
    /\ result' = NoCall
    /\ out' = NoCall
    /\ calculatedPositions' =
          calculatePositions(formulas, calculatedPositions, landmarks')
    /\ notified' = (landmarks'.present /\ onCalculatedPositionsUpdateCallback)
    /\ formula' = <<>>
    /\ servoId' = NumberId(1)
    /\ UNCHANGED <<formulas, onCalculatedPositionsUpdateCallback>>
    /\ UNCHANGED sessionVars
    /\ UNCHANGED otherVars

ProcessLandmarks == \E lms \in ControlFrames : processLandmarksCall(lms)

\* ServoControl.onCalculatedPositionsUpdate(callback): a function or null
OnCalculatedPositionsUpdate ==
    \E callback \in BOOLEAN :
        /\ onCalculatedPositionsUpdateCallback' = callback
        /\ call' = "onCalculatedPositionsUpdate"
        /\ result' = NoCall
        /\ out' = NoCall
        /\ notified' = FALSE
        /\ formula' = <<>>
        /\ servoId' = NumberId(1)
        /\ landmarks' = NoLandmarks
        /\ UNCHANGED <<formulas, calculatedPositions>>
        /\ UNCHANGED sessionVars
        /\ UNCHANGED otherVars

ControlNext == UpdateFormula \/ ProcessLandmarks \/ OnCalculatedPositionsUpdate

ControlSpec == ControlInit /\ [][ControlNext]_vars

\* C19: updateFormula(servoId, formula) with a non-empty formula that fails
\* validate returns false and leaves the formula registry unchanged; with a
\* valid or empty formula it returns true, stores the formula under
\* servoId and changes no other entry.
C19_UpdateFormulaFrame ==
    [][call' = "updateFormula" =>
          IF ~IsEmptyFormula(formula') /\ ~validate(formula')
          THEN out' = Value(FALSE) /\ formulas' = formulas
          ELSE /\ out' = Value(TRUE)
               /\ formulas'[KeyOf(servoId')] = Stored(formula')
               /\ \A k \in ServoKeys \ {KeyOf(servoId')} : formulas'[k] = formulas[k]
      ]_vars

C19_Witness ==
    /\ call = "updateFormula"
    /\ formula = <<"2", ")">>
    /\ out = Value(FALSE)
    /\ formulas[KeyOf(servoId)] = Stored(<<"2", "+", "3", "*", "4">>)

\* What evaluating the formula of key k on the given frame does.
EvaluationOf(k, lms) == BundledFormulaParserEvaluate(formulas[k].text, lms)

HasFormula(k) == formulas[k].has /\ ~IsEmptyFormula(formulas[k].text)

\* C20: in processLandmarks with landmarks, a servo whose formula fails to
\* evaluate keeps its previous calculated position, every servo whose
\* formula evaluates gets the new position, and the registered callback is
\* invoked; without landmarks nothing changes and no callback fires.
C20_FailureKeepsPosition ==
    [][call' = "processLandmarks" =>
          IF ~landmarks'.present
          THEN /\ calculatedPositions' = calculatedPositions
               /\ formulas' = formulas
               /\ ~notified'
          ELSE /\ \A k \in ServoKeys :
                     IF HasFormula(k) /\ EvaluationOf(k, landmarks').ok
                     THEN calculatedPositions'[k]
                            = Position(EvaluationOf(k, landmarks').value)
                     ELSE calculatedPositions'[k] = calculatedPositions[k]
               /\ formulas' = formulas
               /\ notified' = onCalculatedPositionsUpdateCallback
      ]_vars

C20_Witness ==
    /\ call = "processLandmarks"
    /\ landmarks = Hand(1)
    /\ notified
    /\ formulas[1] = Stored(<<"f", "o", "o">>)
    /\ calculatedPositions[1] = Position(Num(14))
    /\ HasFormula(2)
    /\ EvaluationOf(2, landmarks).ok
    /\ calculatedPositions[2] = Position(EvaluationOf(2, landmarks).value)
    /\ calculatedPositions[2] # Position(Num(14))

(***************************************************************************)
(* The tokenizer run one pass of its while loop at a time, on any short    *)
(* string, and the parser run on the tokens it leaves or on any short      *)
(* token sequence.                                                         *)
(***************************************************************************)
MaxChars == 3

MaxTokens == 3

LoopChars == {"1", ".", "a", "(", ",", "$", " "}

LoopTokens ==
    {NumberToken(Num(1)), OperatorToken("-"), OperatorToken("*"),
     OperatorToken("("), OperatorToken(")"), FunctionToken(<<"f">>),
     VariableToken(<<"x">>), CommaToken}

SequencesUpTo(n, S) == UNION {[1..m -> S] : m \in 0..n}

ParserInit ==
    /\ \/ formula \in SequencesUpTo(MaxChars, LoopChars) /\ lastTokens = <<>>
       \/ formula = <<>> /\ lastTokens \in SequencesUpTo(MaxTokens, LoopTokens)
    /\ servoId = NumberId(1)
    /\ landmarks = NoLandmarks
    /\ call = "none"
    /\ result = NoCall
    /\ out = NoCall
    /\ remembered = NothingRemembered
    /\ ControlCreated
    /\ OthersCreated

\* tokenize(formula) up to its while loop: const tokens = [], let i = 0 and
\* the whitespace removed (the index here is 1-based, on the stripped text).
TokenizeBegin ==
    /\ call = "none"
    /\ call' = "tokenize"
    /\ index' = 1
    /\ lastTokens' = <<>>
    /\ UNCHANGED <<formula, servoId, landmarks, result, out, remembered>>
    /\ UNCHANGED <<controlVars, networkVars, trackingVars>>

\* One pass through the body of the while loop.
TokenizeIteration ==
    /\ call = "tokenize"
    /\ index <= Len(StripWhitespace(formula))
    /\ index' = tokenizeIteration(StripWhitespace(formula), index, lastTokens).i
    /\ lastTokens' =
          tokenizeIteration(StripWhitespace(formula), index, lastTokens).tokens
    /\ UNCHANGED <<formula, servoId, landmarks, call, result, out, remembered>>
    /\ UNCHANGED <<controlVars, networkVars, trackingVars>>

\* The loop condition fails: return tokens.
TokenizeReturn ==
    /\ call = "tokenize"
    /\ index > Len(StripWhitespace(formula))
    /\ call' = "tokenized"
    /\ UNCHANGED <<formula, servoId, landmarks, result, out, lastTokens, remembered>>
    /\ UNCHANGED <<controlVars, otherVars>>

\* parse(tokens) on the tokens at hand.
Parse ==
    /\ call \in {"none", "tokenized"}
    /\ call' = "parse"
    /\ result' = parse(lastTokens)
    /\ UNCHANGED <<formula, servoId, landmarks, out, lastTokens, remembered>>
    /\ UNCHANGED <<controlVars, otherVars>>

ParserNext == TokenizeBegin \/ TokenizeIteration \/ TokenizeReturn \/ Parse

\* tokenize is synchronous code: once called, its loop goes on running.
ParserSpec ==
    /\ ParserInit
    /\ [][ParserNext]_vars
    /\ WF_vars(TokenizeIteration)
    /\ WF_vars(TokenizeReturn)

SyntaxErrors ==
    {"Unexpected end of formula", "Missing closing parenthesis",
     "Missing closing parenthesis for function '",
     "Expected '(' after function name '", "Unexpected token: "}

\* r, returned by a parse function called at pos, is a syntax error or a
\* node with at least one token consumed.
ConsumesOrFails(r, tokens, pos) ==
    IF r.ok THEN r.pos > pos /\ r.pos <= Len(tokens)
    ELSE r.msg[1] \in SyntaxErrors

\* C24: tokenize ends on every string and raises nothing: every pass of its
\* loop moves the index forward by at least one character, within the
\* text, until the loop condition fails.  parse ends on every token
\* sequence with a tree or a syntax error, and every call of a parse
\* function that returns has consumed at least one token.
C24_TokenizeAndParseEnd ==
    /\ [][(call = "tokenize" /\ call' = "tokenize") => index' > index]_vars
    /\ [](call = "tokenize" => index \in 1..(Len(StripWhitespace(formula)) + 1))
    /\ (call = "tokenize") ~> (call = "tokenized")
    /\ [](call = "tokenized" => lastTokens = tokenize(formula))
    /\ [](call = "parse" =>
            /\ result.ok \/ result.msg[1] \in SyntaxErrors
            /\ \A pos \in 0..Len(lastTokens) :
                  /\ ConsumesOrFails(parseExpression(lastTokens, pos), lastTokens,
                                     pos)
                  /\ ConsumesOrFails(parseAdditive(lastTokens, pos), lastTokens,
                                     pos)
                  /\ ConsumesOrFails(parseMultiplicative(lastTokens, pos), lastTokens,
                                     pos)
                  /\ ConsumesOrFails(parsePrimary(lastTokens, pos), lastTokens,
                                     pos))

C24_Witness ==
    /\ call = "parse"
    /\ formula = <<"1", ".", "1">>
    /\ index = 4
    /\ lastTokens = <<NumberToken(Rat(11, 10))>>
    /\ result.ok
    /\ result.pos = 1

(***************************************************************************)
(* ServoControl and the robot: init, the timers, the robot address, the    *)
(* formula registry, the frames, and the two fetches with their answers.   *)
(* A fetch is answered at any later time, successfully (response.ok) or    *)
(* not (network error or other status).                                    *)
(***************************************************************************)
MaxInFlight == 2

Addresses == {"A", "B"}

Formula3 == <<"3">>

Formula4 == <<"4">>

InvalidFormula == <<"2", ")">>

\* The formulas typed for servo 1.
NetworkFormulas == {Formula3, Formula4, InvalidFormula}

\* The formulas objects of the configuration files loaded.
Registry(f1, f2) == [k \in ServoKeys |-> IF k = 1 THEN f1 ELSE f2]

ConfiguredFormulas ==
    {Registry(NoFormula, NoFormula), Registry(Stored(Formula4), NoFormula),
     Registry(Stored(InvalidFormula), NoFormula)}

NetworkInit == ControlInit

\* The arguments a call does not take, and what it leaves alone.
NoArguments ==
    /\ formula' = <<>>
    /\ servoId' = NumberId(1)
    /\ landmarks' = NoLandmarks
    /\ result' = NoCall
    /\ notified' = FALSE
    /\ UNCHANGED <<sessionVars, tokenizerVars, trackingVars>>
    /\ UNCHANGED onCalculatedPositionsUpdateCallback

CanFetch == BagCardinality(requests) < MaxInFlight

\* ServoControl.init(ip, minChange, interval); the application calls it
\* once, when it starts.
ServoControlInit ==
    \E ip \in {NoIp, "A"} :
        /\ call = "none"
        /\ call' = "init"
        /\ out' = NoCall
        /\ robotIp' = ip
        /\ minChangeThreshold' = DEFAULT_MIN_CHANGE
        /\ lastSentPositions' = [k \in ServoKeys |-> NoPosition]
        /\ calculatedPositions' = [k \in ServoKeys |-> NoPosition]
        /\ formulas' = [k \in ServoKeys |-> NoFormula]
        /\ statusUpdateTimer' = TRUE
        /\ requests' = getRobotStatus(robotIp', requests)
        /\ UNCHANGED <<isConnected, sendTimer, received>>
        /\ NoArguments

\* ServoControl.start()
Start ==
    /\ call' = "start"
    /\ out' = NoCall
    /\ sendTimer' = TRUE
    /\ UNCHANGED <<robotIp, minChangeThreshold, lastSentPositions, isConnected,
                   statusUpdateTimer, requests, received>>
    /\ UNCHANGED <<formulas, calculatedPositions>>
    /\ NoArguments

\* ServoControl.stop()
Stop ==
    /\ call' = "stop"
    /\ out' = NoCall
    /\ sendTimer' = FALSE
    /\ UNCHANGED <<robotIp, minChangeThreshold, lastSentPositions, isConnected,
                   statusUpdateTimer, requests, received>>
    /\ UNCHANGED <<formulas, calculatedPositions>>
    /\ NoArguments

\* ServoControl.updateRobotIp(ip)
UpdateRobotIp ==
    \E ip \in Addresses \cup {NoIp} :
        /\ CanFetch
        /\ call' = "updateRobotIp"
        /\ out' = NoCall
        /\ robotIp' = ip
        /\ isConnected' = FALSE
        /\ statusUpdateTimer' = TRUE
        /\ requests' = getRobotStatus(robotIp', requests)
        /\ UNCHANGED <<minChangeThreshold, lastSentPositions, sendTimer, received>>
        /\ UNCHANGED <<formulas, calculatedPositions>>
        /\ NoArguments

\* ServoControl.setFormulas(newFormulas)
SetFormulas ==
    \E newFormulas \in ConfiguredFormulas :
        /\ call' = "setFormulas"
        /\ out' = NoCall
        /\ formulas' = newFormulas
        /\ UNCHANGED calculatedPositions
        /\ UNCHANGED networkVars
        /\ NoArguments

TypeFormula == \E f \in NetworkFormulas : updateFormulaCall(NumberId(1), f)

Frame == processLandmarksCall(Hand(1))

\* The send timer fires: sendServoPositions() up to its await.
SendServoPositions ==
    /\ sendTimer
    /\ CanFetch
    /\ call' = "sendServoPositions"
    /\ out' = NoCall
    /\ lastSentPositions' =
          sendServoPositionsRecord(robotIp, isConnected, calculatedPositions,
                                   lastSentPositions, minChangeThreshold)
    /\ requests' =
          sendServoPositionsFetch(robotIp, isConnected, calculatedPositions,
                                  lastSentPositions, minChangeThreshold, requests)
    /\ UNCHANGED <<robotIp, minChangeThreshold, isConnected, sendTimer,
                   statusUpdateTimer, received>>
    /\ UNCHANGED <<formulas, calculatedPositions>>
    /\ NoArguments

\* The status timer fires: getRobotStatus() up to its await.
GetRobotStatus ==
    /\ statusUpdateTimer
    /\ CanFetch
    /\ call' = "getRobotStatus"
    /\ out' = NoCall
    /\ requests' = getRobotStatus(robotIp, requests)
    /\ UNCHANGED <<robotIp, minChangeThreshold, lastSentPositions, isConnected,
                   sendTimer, statusUpdateTimer, received>>
    /\ UNCHANGED <<formulas, calculatedPositions>>
    /\ NoArguments

\* A fetch is answered and the function that awaited it runs to its end;
\* out is whether the answer was a success.
Response ==
    \E r \in BagToSet(requests), ok \in BOOLEAN :
        /\ call' = "response"
        /\ out' = Value(ok)
        /\ requests' = Answered(requests, r)
        /\ received' = receivedAfter(r, ok, received)
        /\ isConnected' = connectedAfter(ok)
        /\ UNCHANGED <<robotIp, minChangeThreshold, lastSentPositions, sendTimer,
                       statusUpdateTimer>>
        /\ UNCHANGED <<formulas, calculatedPositions>>
        /\ NoArguments

NetworkNext ==
    \/ ServoControlInit
    \/ Start
    \/ Stop
    \/ UpdateRobotIp
    \/ SetFormulas
    \/ TypeFormula
    \/ Frame
    \/ SendServoPositions
    \/ GetRobotStatus
    \/ Response

NetworkSpec == NetworkInit /\ [][NetworkNext]_vars

\* C26: after any sequence of init, updateFormula and setFormulas calls,
\* every entry of the formula registry is empty or a formula that
\* FormulaParser.validate accepts.
C26_RegistryHoldsValidFormulas ==
    \A k \in ServoKeys :
        formulas[k].has =>
            IsEmptyFormula(formulas[k].text) \/ validate(formulas[k].text)

\* Some POST in flight carries a position for servo key k.
PostInFlightFor(k) ==
    \E r \in BagToSet(requests) : r.method = "POST" /\ r.body[k].has

\* C27: lastSentPositions holds a position for a servo only if the robot
\* answered successfully a POST carrying that position for that servo: once
\* no POST for the servo is in flight any more, a position whose POST failed
\* is not recorded as sent (and so is sent again at a later tick).
C27_RecordedOnlyIfAnswered ==
    \A k \in ServoKeys :
        (lastSentPositions[k].has /\ ~PostInFlightFor(k)) =>
            <<k, lastSentPositions[k].value>> \in received

\* The request whose answer the step delivers is addressed to ip.
AnswersRequestTo(ip) ==
    \E r \in BagToSet(requests) : requests' = Answered(requests, r) /\ r.ip = ip

\* C28: updateRobotIp leaves isConnected false, and isConnected becomes
\* true only by the success of a request addressed to the current robot
\* address, never by the answer to a request sent to an earlier address.
C28_ConnectedOnlyByCurrentAddress ==
    [][/\ call' = "updateRobotIp" => ~isConnected'
       /\ (~isConnected /\ isConnected') =>
             (call' = "response" /\ AnswersRequestTo(robotIp))
      ]_vars

\* The position differs from the last one recorded as sent (0 when there is
\* none) by strictly more than the threshold.
ChangedEnough(k) ==
    Gt(MathAbs(Sub(calculatedPositions[k].value,
                   IF lastSentPositions[k].has
                   THEN lastSentPositions[k].value ELSE Num(0))),
       Num(minChangeThreshold))

\* C30: sendServoPositions issues no request while robotIp is unset or
\* isConnected is false; every position of the POST it issues is the
\* calculated position of a servo that differs from the last recorded sent
\* position (0 when none) by strictly more than minChangeThreshold; when no
\* servo qualifies, no request is made and lastSentPositions is unchanged.
C30_OnlyChangedPositionsSent ==
    [][call' = "sendServoPositions" =>
          /\ (robotIp = NoIp \/ ~isConnected) => requests' = requests
          /\ \A r \in BagToSet(requests' (-) requests) :
                /\ r.method = "POST"
                /\ r.ip = robotIp
                /\ \A k \in ServoKeys :
                      r.body[k].has =>
                          /\ calculatedPositions[k].has
                          /\ r.body[k] = calculatedPositions[k]
                          /\ ChangedEnough(k)
          /\ BagCardinality(requests' (-) requests) <= 1
          /\ (\A k \in ServoKeys : calculatedPositions[k].has => ~ChangedEnough(k))
                => (requests' = requests /\ lastSentPositions' = lastSentPositions)
      ]_vars

C30_Witness ==
    /\ call = "sendServoPositions"
    /\ isConnected
    /\ robotIp = "A"
    /\ calculatedPositions[1] = Position(Num(4))
    /\ lastSentPositions[1] = Position(Num(4))
    /\ BagToSet(requests) = {Post("A", [k \in ServoKeys |->
                                  IF k = 1 THEN Position(Num(4)) ELSE NoPosition])}

(***************************************************************************)
(* HandTracking: startTracking, stopTracking and the detection loop.  An   *)
(* animation frame requested runs at any later time unless it is           *)
(* cancelled; detectionLoop awaits detectLandmarks, which answers at any   *)
(* later time with landmarks or null.                                      *)
(***************************************************************************)
\* At most this many detection-loop chains are followed.
MaxChains == 3

FrameIds == 1..(MaxChains + 1)

\* The id requestAnimationFrame returns: one that no frame still requested
\* and no variable holds.
requestAnimationFrame(pending, held) ==
    CHOOSE id \in FrameIds :
        /\ id \notin pending \cup {held}
        /\ \A other \in FrameIds :
              other \notin pending \cup {held} => id <= other

\* cancelAnimationFrame(id)
cancelAnimationFrame(pending, id) == pending \ {id}

\* The detection-loop chains: the frames requested and the detections
\* awaited.
Chains == Cardinality(frames) + detections

TrackingInit == ControlInit

\* What HandTracking leaves alone.
TrackingOnly ==
    /\ formula' = <<>>
    /\ servoId' = NumberId(1)
    /\ result' = NoCall
    /\ out' = NoCall
    /\ UNCHANGED <<sessionVars, controlVars, tokenizerVars, networkVars>>

\* HandTracking.onLandmarksUpdate(callback): a function or null
OnLandmarksUpdate ==
    \E callback \in BOOLEAN :
        /\ call' = "onLandmarksUpdate"
        /\ onLandmarksUpdateCallback' = callback
        /\ delivered' = FALSE
        /\ landmarks' = NoLandmarks
        /\ UNCHANGED <<isTracking, animationFrameId, frames, detections>>
        /\ TrackingOnly

\* HandTracking.startTracking()
StartTracking ==
    /\ isTracking \/ Chains < MaxChains
    /\ call' = "startTracking"
    /\ IF isTracking
       THEN UNCHANGED <<isTracking, animationFrameId, frames>>
       ELSE /\ isTracking' = TRUE
            /\ animationFrameId' = requestAnimationFrame(frames, animationFrameId)
            /\ frames' = frames \cup {animationFrameId'}
    /\ delivered' = FALSE
    /\ landmarks' = NoLandmarks
    /\ UNCHANGED <<detections, onLandmarksUpdateCallback>>
    /\ TrackingOnly

\* HandTracking.stopTracking()
StopTracking ==
    /\ call' = "stopTracking"
    /\ isTracking' = FALSE
    /\ frames' = IF animationFrameId # NoFrame
                 THEN cancelAnimationFrame(frames, animationFrameId)
                 ELSE frames
    /\ animationFrameId' = NoFrame
    /\ delivered' = FALSE
    /\ landmarks' = NoLandmarks
    /\ UNCHANGED <<detections, onLandmarksUpdateCallback>>
    /\ TrackingOnly

\* A requested frame runs: detectionLoop(timestamp) up to its await.
DetectionLoop ==
    \E id \in frames :
        /\ call' = "detectionLoop"
        /\ frames' = frames \ {id}
        /\ detections' = IF isTracking THEN detections + 1 ELSE detections
        /\ delivered' = FALSE
        /\ landmarks' = NoLandmarks
        /\ UNCHANGED <<isTracking, animationFrameId, onLandmarksUpdateCallback>>
        /\ TrackingOnly

\* detectLandmarks answers and detectionLoop runs to its end.
Detected ==
    \E lms \in {NoLandmarks, Hand(1)} :
        /\ detections > 0
        /\ call' = "detected"
        /\ landmarks' = lms
        /\ detections' = detections - 1
        /\ delivered' = (landmarks'.present /\ onLandmarksUpdateCallback)
        /\ animationFrameId' = requestAnimationFrame(frames, animationFrameId)
        /\ frames' = frames \cup {animationFrameId'}
        /\ UNCHANGED <<isTracking, onLandmarksUpdateCallback>>
        /\ TrackingOnly

TrackingNext ==
    \/ OnLandmarksUpdate
    \/ StartTracking
    \/ StopTracking
    \/ DetectionLoop
    \/ Detected

TrackingSpec == TrackingInit /\ [][TrackingNext]_vars

\* C29: at most one detection-loop chain is scheduled at a time, and a
\* detection that answers while tracking is stopped neither passes
\* landmarks to the landmarks callback nor requests another frame.
C29_OneChainAndSilentAfterStop ==
    /\ [](Chains <= 1)
    /\ [][(call' = "detected" /\ ~isTracking) =>
              (~delivered' /\ frames' = frames)]_vars

====
